---- MODULE Spec2Model ----
(***************************************************************************)
(* TheSkyService capture orchestration (TheSkyService.go).                 *)
(*                                                                         *)
(* Times that the Go code holds in float64 seconds are held here in tenths *)
(* of a second (exact decimal fixed point); the arguments handed to the    *)
(* delay service are whole seconds, as in the code (int(math.Round(..))).  *)
(* On the arguments enumerated below the float64 results equal the exact   *)
(* ones.                                                                   *)
(* One call frame of CaptureDarkFrame / CaptureBiasFrame /                 *)
(* CaptureAndMeasureFlatFrame is the record "frame"; every collaborator    *)
(* call (driver command, delay request) is one step whose reply is chosen  *)
(* nondeterministically.                                                   *)
(***************************************************************************)
EXTENDS Integers, Sequences, FiniteSets, TLC

VARIABLES
    simulateFlatCapture,      \* TheSkyServiceInstance.simulateFlatCapture
    simulationNoiseFraction,  \* TheSkyServiceInstance.simulationNoiseFraction, in tenths
    frame,                    \* the capture call in progress
    twin,                     \* a second run of the same call (SpecTwin only)
    reportsDiffered,          \* SpecTwin: the two runs were told different actual delays
    wheel,                    \* service.driver's kind and the filter wheel behind it
    probe,                    \* the HasFilterWheel call in progress
    threads,                  \* each thread's sendCommand call on the one driver
    mutex,                    \* the sync.Mutex values of sendCommand, locked or not
    sim,                      \* the last call of simulatedFrameCapture and its result
    link,                     \* service.isOpen, driver.isOpen and driver.cameraConnected
    download,                 \* the MeasureDownloadTime call in progress
    filters,                  \* the wheel's filter names and what the service made of them
    served,                   \* the last call of the connection and camera operations
    waiting,                  \* the WaitForCameraInactive call in progress
    reply                     \* the last reply of the server and what sendCommand made of it

vars == <<simulateFlatCapture, simulationNoiseFraction, frame, twin, reportsDiffered,
          wheel, probe, threads, mutex, sim, link, download, filters, served, waiting, reply>>

\* the state of one capture call and of the service's simulation settings
captureVars ==
    <<simulateFlatCapture, simulationNoiseFraction, frame, twin, reportsDiffered>>

\* the filter wheel and the call that probes it
wheelVars == <<wheel, probe>>

\* the driver's sendCommand calls in flight
channelVars == <<threads, mutex>>

\* the connection and the download time measurement
downloadVars == <<link, download>>

\* the calls that stand apart from the subsystems above
otherVars == <<filters, served, waiting, reply>>

\* what the connection and camera operations leave alone, their own records apart
nonLinkVars == <<captureVars, wheelVars, channelVars, sim, filters, reply>>

\* what a capture call leaves alone
nonCaptureVars == <<wheelVars, channelVars, sim, downloadVars, otherVars>>

\* what the presence probe leaves alone
nonWheelVars == <<captureVars, channelVars, sim, downloadVars, otherVars>>

\* what a sendCommand call leaves alone
nonChannelVars == <<captureVars, wheelVars, sim, downloadVars, otherVars>>

\* what simulatedFrameCapture leaves alone, the noise fraction apart
nonSimVars ==
    <<simulateFlatCapture, frame, twin, reportsDiffered, wheelVars, channelVars,
      downloadVars, otherVars>>

\* what the connection and the download time measurement leave alone
nonDownloadVars == <<captureVars, wheelVars, channelVars, sim, otherVars>>

\* what the subsystems above are, for the calls that stand apart
subsystemVars == <<captureVars, wheelVars, channelVars, sim, downloadVars>>

----------------------------------------------------------------------------
(* Bounds of the model *)

MaxDownloadSteps == 2

\* the number of threads that call the driver concurrently
MaxThreads == 2

\* the binnings and filter slots simulatedFrameCapture is tried on
MaxSimBinning == 3

MaxSimFilterSlot == 6

\* the binnings MeasureDownloadTime is asked for
MaxDownloadBinning == 4

\* how many names the driver returns at most, and how long a name is at most
MaxNames == 2

MaxNameLen == 2

\* the polling delays of WaitForCameraInactive after which its deadline has passed
MaxWaitDelays == 3

\* how much text follows the start of an error line at most
MaxSuffixLen == 2

\* download times offered by callers: 0 s, 2.5 s, 5.0 s, ...
DownloadTimes == {25 * k : k \in 0..MaxDownloadSteps}

\* exposures offered by callers, tenths of a second
Exposures == {-10, 0, 4, 140, 200, 1250}

Binnings == {1, 2}

\* filter slots offered to flat capture (FilterSlotNoFilter among them)
FilterSlots == {-1, 1}

\* what the camera reports as average ADU
ADUValues == {0, 30000}

\* what the delay service may report for a request of n whole seconds
ReportedDelays(n) == {n, 1, 0}

\* simulationNoiseFraction values a caller sets, in tenths (0.2 is the constructor's)
NoiseFractions == {0, 2}

\* rand.Float64() - 0.5, in quarters: -0.5, -0.25, 0, 0.25
NoiseDraws == {-2, -1, 0, 1}

----------------------------------------------------------------------------
(* Program constants, tenths of a second *)

AndALittleExtra == 5
pollingInterval == 20
timeoutFactor == 5
shortTimeForBiasExposure == 1
minimumTimeoutForDark == 10 * 60 * 10
minimumTimeoutForBias == 3 * 60 * 10
FilterSlotNoFilter == -1

Kinds == {"dark", "bias", "flat"}

----------------------------------------------------------------------------
(* Errors: a Go error value is its message, kept as (origin, text) *)

NoError == [where |-> "", text |-> ""]

Err(where, text) == [where |-> where, text |-> text]

TimeoutText == "Timeout waiting for capture to finish"

OperationName(kind) ==
    CASE kind = "dark" -> "CaptureDarkFrame"
      [] kind = "bias" -> "CaptureBiasFrame"
      [] kind = "flat" -> "CaptureAndMeasureFlatFrame"

StartCommandName(kind) ==
    CASE kind = "dark" -> "StartDarkFrameCapture"
      [] kind = "bias" -> "StartBiasFrameCapture"
      [] kind = "flat" -> "StartFlatFrameCapture"

\* a variant in which every kind reports the dark capture's message
TimeoutErrorOfDark(kind) == Err("CaptureDarkFrame", TimeoutText)

\* errors.New("TheSkyServiceInstance/<op>: Timeout waiting for capture to finish")
TimeoutError(kind) == Err(OperationName(kind), TimeoutText)

\* what a driver operation can fail with: its camera guard, or sendCommand
DriverErrors(op) ==
    {Err(op, "Camera not connected"), Err("sendCommand", "TheSkyX error")}

\* GetADUValue can also fail to parse the reply
ADUErrors ==
    DriverErrors("GetADUValue") \cup {Err("sendCommandFloatReply", "error parsing numeric result")}

\* the delay service's failure
DelayErrors == {Err("DelayDuration", "delay failed")}

----------------------------------------------------------------------------
(* Arithmetic *)

Max(a, b) == IF a >= b THEN a ELSE b

Min(a, b) == IF a <= b THEN a ELSE b

\* math.Round on a value given in tenths: nearest whole, halves away from zero
RoundTenths(x) ==
    IF x >= 0 THEN (x + 5) \div 10 ELSE -((-x + 5) \div 10)

----------------------------------------------------------------------------
(* The capture call frame *)

IdleFrame ==
    [pc |-> "idle", kind |-> "dark", binning |-> 1, seconds |-> 0,
     downloadTime |-> 0, filterSlot |-> FilterSlotNoFilter, saveImage |-> FALSE,
     maximumWaitSeconds |-> 0, secondsWaitedSoFar |-> 0,
     nStart |-> 0, nInitialDelay |-> 0, nPollDelay |-> 0, nPoll |-> 0, nADU |-> 0,
     firstDelayArg |-> 0, pollDelayArg |-> 0, lastCall |-> "none", lastDone |-> FALSE,
     failedCall |-> "none", collaboratorErr |-> NoError,
     channelADU |-> 0, noiseDraw |-> 0,
     err |-> NoError, aduValue |-> 0]

\* the record of one collaborator call: which it was and, if it failed, with what
Called(f, call, e) ==
    [f EXCEPT !.lastCall = call,
              !.failedCall = IF e # NoError THEN call ELSE @,
              !.collaboratorErr = IF e # NoError THEN e ELSE @]

\* the exposure the wait is computed from: the caller's, or the fixed bias one
NominalExposure(f) ==
    IF f.kind = "bias" THEN shortTimeForBiasExposure ELSE f.seconds

\* a variant in which only dark frames get the long floor
MinimumTimeoutLongForDarkOnly(kind) ==
    IF kind = "dark" THEN minimumTimeoutForDark ELSE minimumTimeoutForBias

MinimumTimeout(kind) ==
    IF kind = "bias" THEN minimumTimeoutForBias ELSE minimumTimeoutForDark

\* a variant that converts to int without rounding first
DelayUntilCompleteTruncated(nominal, downloadTime) ==
    (nominal + downloadTime + AndALittleExtra) \div 10

\* delayUntilComplete := int(math.Round(seconds + downloadTime + AndALittleExtra))
DelayUntilComplete(nominal, downloadTime) ==
    RoundTenths(nominal + downloadTime + AndALittleExtra)

\* a variant that scales the expected time and applies no floor
MaximumWaitSecondsUnfloored(nominal, downloadTime, minimum) ==
    (nominal + downloadTime) * timeoutFactor

\* maximumWaitSeconds := math.Max((seconds+downloadTime)*timeoutFactor, minimum)
MaximumWaitSeconds(nominal, downloadTime, minimum) ==
    Max((nominal + downloadTime) * timeoutFactor, minimum)

\* a variant that gives up as soon as the limit is reached
TimedOutAtLimit(waited, maximum) == waited >= maximum

\* a variant that allows one more polling interval before giving up
TimedOutLate(waited, maximum) == waited > maximum + pollingInterval

\* if secondsWaitedSoFar > maximumWaitSeconds
TimedOut(waited, maximum) == waited > maximum

\* a variant that accumulates what the delay service says it delayed
NextSecondsWaitedReported(waited, reported) == waited + reported

\* secondsWaitedSoFar += pollingInterval   (the reported delay is discarded)
NextSecondsWaited(waited, reported) == waited + pollingInterval

\* a variant with the literal of the commented-out DelayDuration(10)
PollDelayArgTen == 10

\* int(math.Round(pollingInterval))
PollDelayArg == RoundTenths(pollingInterval)

\* a variant that returns a failure under the name of the capture operation
ReturnWrapped(f, e, adu) ==
    [f EXCEPT !.pc = "returned",
              !.err = IF e = NoError THEN e ELSE Err(OperationName(f.kind), e.text),
              !.aduValue = adu]

\* return err  /  return 0, err
Return(f, e, adu) == [f EXCEPT !.pc = "returned", !.err = e, !.aduValue = adu]

\* a variant without the test of the exposure
EnterUnguarded(kind, binning, seconds, downloadTime, filterSlot, saveImage) ==
    [IdleFrame EXCEPT
        !.pc = "start",
        !.kind = kind, !.binning = binning, !.seconds = seconds,
        !.downloadTime = downloadTime, !.filterSlot = filterSlot,
        !.saveImage = saveImage]

\* entry of the three capture functions; flat panics on exposure == 0.0
Enter(kind, binning, seconds, downloadTime, filterSlot, saveImage) ==
    [IdleFrame EXCEPT
        !.pc = IF kind = "flat" /\ seconds = 0 THEN "panicked" ELSE "start",
        !.kind = kind, !.binning = binning, !.seconds = seconds,
        !.downloadTime = downloadTime, !.filterSlot = filterSlot,
        !.saveImage = saveImage]

\* a variant that logs a failed start and carries on
AfterStartIgnoresError(f, e) ==
    [Called(f, "start", e) EXCEPT !.nStart = @ + 1, !.pc = "initialDelay"]

\* a variant that polls at once, without the initial delay
AfterStartSkipsInitialDelay(f, e) ==
    LET g == [Called(f, "start", e) EXCEPT !.nStart = @ + 1]
    IN  IF e # NoError THEN Return(g, e, 0)
        ELSE [g EXCEPT !.pc = "poll",
                       !.maximumWaitSeconds =
                           MaximumWaitSeconds(NominalExposure(f), f.downloadTime,
                                              MinimumTimeout(f.kind)),
                       !.secondsWaitedSoFar = 0]

\* err := service.driver.Start<Kind>FrameCapture(...); if err != nil { return err }
AfterStart(f, e) ==
    LET g == [Called(f, "start", e) EXCEPT !.nStart = @ + 1]
    IN  IF e # NoError THEN Return(g, e, 0)
        ELSE [g EXCEPT !.pc = "initialDelay"]

\* a variant that discards the initial delay's error with its result
AfterInitialDelayIgnoresError(f, reported, e) ==
    [Called(f, "initialDelay", e) EXCEPT
        !.nInitialDelay = @ + 1,
        !.firstDelayArg = DelayUntilComplete(NominalExposure(f), f.downloadTime),
        !.pc = "poll",
        !.maximumWaitSeconds =
            MaximumWaitSeconds(NominalExposure(f), f.downloadTime,
                               MinimumTimeout(f.kind)),
        !.secondsWaitedSoFar = 0]

\* the initial DelayDuration(delayUntilComplete), then the loop's set-up
AfterInitialDelay(f, reported, e) ==
    LET arg == DelayUntilComplete(NominalExposure(f), f.downloadTime)
        g == [Called(f, "initialDelay", e) EXCEPT
                  !.nInitialDelay = @ + 1, !.firstDelayArg = arg]
    IN  IF e # NoError THEN Return(g, e, 0)
        ELSE [g EXCEPT !.pc = "poll",
                       !.maximumWaitSeconds =
                           MaximumWaitSeconds(NominalExposure(f), f.downloadTime,
                                              MinimumTimeout(f.kind)),
                       !.secondsWaitedSoFar = 0]

\* a variant that treats a failed status check as "not complete" and retries
AfterPollRetriesOnError(f, done, e) ==
    LET g == [Called(f, "poll", e) EXCEPT
                  !.nPoll = @ + 1, !.lastDone = (e = NoError /\ done)]
    IN  IF e = NoError /\ done THEN
            IF f.kind = "flat" THEN [g EXCEPT !.pc = "measure"]
            ELSE Return(g, NoError, 0)
        ELSE IF TimedOut(f.secondsWaitedSoFar, f.maximumWaitSeconds)
            THEN Return(g, TimeoutError(f.kind), 0)
        ELSE [g EXCEPT !.pc = "pollDelay"]

\* a variant that wants "complete" confirmed by a second poll
AfterPollConfirmsTwice(f, done, e) ==
    LET g == [Called(f, "poll", e) EXCEPT
                  !.nPoll = @ + 1, !.lastDone = (e = NoError /\ done)]
    IN  IF e # NoError THEN Return(g, e, 0)
        ELSE IF done /\ f.nPoll > 0 THEN
            IF f.kind = "flat" THEN [g EXCEPT !.pc = "measure"]
            ELSE Return(g, NoError, 0)
        ELSE IF TimedOut(f.secondsWaitedSoFar, f.maximumWaitSeconds)
            THEN Return(g, TimeoutError(f.kind), 0)
        ELSE [g EXCEPT !.pc = "pollDelay"]

\* a variant that tests the elapsed time before it looks at the poll's answer
AfterPollTimeoutFirst(f, done, e) ==
    LET g == [Called(f, "poll", e) EXCEPT
                  !.nPoll = @ + 1, !.lastDone = (e = NoError /\ done)]
    IN  IF e # NoError THEN Return(g, e, 0)
        ELSE IF TimedOut(f.secondsWaitedSoFar, f.maximumWaitSeconds)
            THEN Return(g, TimeoutError(f.kind), 0)
        ELSE IF done THEN
            IF f.kind = "flat" THEN [g EXCEPT !.pc = "measure"]
            ELSE Return(g, NoError, 0)
        ELSE [g EXCEPT !.pc = "pollDelay"]

\* done, err := service.driver.IsCaptureDone() and the two tests that follow it
AfterPoll(f, done, e) ==
    LET g == [Called(f, "poll", e) EXCEPT
                  !.nPoll = @ + 1, !.lastDone = (e = NoError /\ done)]
    IN  IF e # NoError THEN Return(g, e, 0)
        ELSE IF done THEN
            IF f.kind = "flat" THEN [g EXCEPT !.pc = "measure"]
            ELSE Return(g, NoError, 0)
        ELSE IF TimedOut(f.secondsWaitedSoFar, f.maximumWaitSeconds)
            THEN Return(g, TimeoutError(f.kind), 0)
        ELSE [g EXCEPT !.pc = "pollDelay"]

\* a variant that discards the polling delay's error with its result
AfterPollDelayIgnoresError(f, reported, e) ==
    [Called(f, "pollDelay", e) EXCEPT
        !.nPollDelay = @ + 1, !.pollDelayArg = PollDelayArg, !.pc = "poll",
        !.secondsWaitedSoFar = NextSecondsWaited(@, reported)]

\* DelayDuration(int(math.Round(pollingInterval))); secondsWaitedSoFar += pollingInterval
AfterPollDelay(f, reported, e) ==
    LET g == [Called(f, "pollDelay", e) EXCEPT
                  !.nPollDelay = @ + 1, !.pollDelayArg = PollDelayArg]
    IN  IF e # NoError THEN Return(g, e, 0)
        ELSE [g EXCEPT !.pc = "poll",
                       !.secondsWaitedSoFar = NextSecondsWaited(@, reported)]

----------------------------------------------------------------------------
(* simulatedFrameCapture: exact decimal arithmetic on (units, 1e-4 fractions) *)

\* the slope, in thousandths, chosen by (binning, filterSlot)
SimSlope(binning, filterSlot) ==
    CASE binning = 1 /\ filterSlot = 4 -> 721800
      [] binning = 2 /\ filterSlot = 1 -> 7336700
      [] binning = 2 /\ filterSlot = 2 -> 11678000
      [] binning = 2 /\ filterSlot = 3 -> 6820400
      [] binning = 1 /\ filterSlot = 5 -> 67247
      [] OTHER -> 721800

\* the intercept, in 1e-4 units, chosen by (binning, filterSlot)
SimIntercept(binning, filterSlot) ==
    CASE binning = 1 /\ filterSlot = 4 -> 198170000
      [] binning = 2 /\ filterSlot = 1 -> -1004800
      [] binning = 2 /\ filterSlot = 2 -> -2930900
      [] binning = 2 /\ filterSlot = 3 -> 18583000
      [] binning = 1 /\ filterSlot = 5 -> 26327000
      [] OTHER -> 198170000

\* calculatedResult := slope*exposure + intercept, as [u: whole part, f: 1e-4 part]
CalculatedResult(exposure, binning, filterSlot) ==
    LET S == SimSlope(binning, filterSlot) \div 1000
        s == SimSlope(binning, filterSlot) % 1000
        A == S * exposure
        rest == (A % 10) * 1000 + s * exposure + SimIntercept(binning, filterSlot)
    IN  [u |-> (A \div 10) + (rest \div 10000), f |-> rest % 10000]

\* math.Round(calculatedResult + noiseFraction*(rand-0.5)*calculatedResult)
RoundedNoisyResult(v, noiseFraction, draw) ==
    LET m == 40 + noiseFraction * draw
        U == v.u * m
        F == v.f * m
        q == U \div 40
        n == (U % 40) * 10000 + F
    IN  IF U >= 0 THEN q + ((n + 200000) \div 400000)
        ELSE q - ((200000 - n) \div 400000)

\* a variant that returns the rounded value as it is
simulatedFrameCaptureUnclamped(exposure, binning, filterSlot, noiseFraction, draw) ==
    RoundedNoisyResult(CalculatedResult(exposure, binning, filterSlot),
                       noiseFraction, draw)

\* intResult := int64(math.Min(roundedNoisyResult, 65535.0))
simulatedFrameCapture(exposure, binning, filterSlot, noiseFraction, draw) ==
    Min(RoundedNoisyResult(CalculatedResult(exposure, binning, filterSlot),
                           noiseFraction, draw),
        65535)

\* a variant that overrides the measurement whatever the mode
AfterMeasureAlwaysSimulates(f, adu, e, simulate, noiseFraction, draw) ==
    LET g == [Called(f, "measure", e) EXCEPT !.nADU = @ + 1, !.channelADU = adu]
    IN  IF e # NoError THEN Return(g, e, 0)
        ELSE Return([g EXCEPT !.noiseDraw = draw], NoError,
                    simulatedFrameCapture(f.seconds, f.binning, f.filterSlot,
                                          noiseFraction, draw))

\* a variant that does not ask the channel for a measurement it will discard
AfterMeasureSkipsChannel(f, adu, e, simulate, noiseFraction, draw) ==
    IF simulate
    THEN Return([f EXCEPT !.noiseDraw = draw], NoError,
                simulatedFrameCapture(f.seconds, f.binning, f.filterSlot,
                                      noiseFraction, draw))
    ELSE LET g == [Called(f, "measure", e) EXCEPT
                       !.nADU = @ + 1, !.channelADU = adu]
         IN  IF e # NoError THEN Return(g, e, 0) ELSE Return(g, NoError, adu)

\* a variant that, when simulating, returns the simulated value although the
\* channel's measurement failed
AfterMeasureMasksError(f, adu, e, simulate, noiseFraction, draw) ==
    LET g == [Called(f, "measure", e) EXCEPT !.nADU = @ + 1, !.channelADU = adu]
    IN  IF simulate
        THEN Return([g EXCEPT !.noiseDraw = draw], NoError,
                    simulatedFrameCapture(f.seconds, f.binning, f.filterSlot,
                                          noiseFraction, draw))
        ELSE IF e # NoError THEN Return(g, e, 0)
        ELSE Return(g, NoError, adu)

\* a variant that returns what the channel measured whatever the mode
AfterMeasureNeverSimulates(f, adu, e, simulate, noiseFraction, draw) ==
    LET g == [Called(f, "measure", e) EXCEPT !.nADU = @ + 1, !.channelADU = adu]
    IN  IF e # NoError THEN Return(g, e, 0)
        ELSE Return(g, NoError, adu)

\* no simulation has been asked for yet
IdleSim ==
    [pc |-> "idle", exposure |-> 0, binning |-> 1, filterSlot |-> FilterSlotNoFilter,
     noiseFraction |-> 0, draw |-> 0, result |-> 0]

\* the arguments simulatedFrameCapture is tried on, exposures in tenths of seconds
SimExposures == {-10, 0, 4, 140, 180}

SimBinnings == 1..MaxSimBinning

SimFilterSlots == FilterSlotNoFilter..MaxSimFilterSlot

\* aduValue, err := service.driver.GetADUValue() and the optional override;
\* channelADU and noiseDraw keep what the channel reported and what rand drew
AfterMeasure(f, adu, e, simulate, noiseFraction, draw) ==
    LET g == [Called(f, "measure", e) EXCEPT !.nADU = @ + 1, !.channelADU = adu]
    IN  IF e # NoError THEN Return(g, e, 0)
        ELSE IF simulate
            THEN Return([g EXCEPT !.noiseDraw = draw], NoError,
                        simulatedFrameCapture(f.seconds, f.binning, f.filterSlot,
                                              noiseFraction, draw))
        ELSE Return(g, NoError, adu)

----------------------------------------------------------------------------
(* sendCommand: one transaction with TheSkyX (open socket, write, read reply), *)
(* called by several threads on the same TheSkyDriverInstance                   *)

\* the threads that use the driver at the same time
Threads == 1..MaxThreads

IdleThread == [pc |-> "idle", err |-> NoError]

\* var mutex sync.Mutex: the mutex a call locks is a variable of that call
MutexOf(t) == t

\* the errors of net.Dial, conn.Write and conn.Read, and of the write's length test
DialErrors == {Err("net.Dial", "connection refused")}

WriteErrors ==
    {Err("conn.Write", "write failed"),
     Err("sendCommand", "wrong number of bytes from driver")}

ReadErrors == {Err("conn.Read", "read failed")}

\* what the reply's error line makes of the call: nothing, or a TheSkyX error
ReplyErrors == {NoError, Err("sendCommand", "TheSkyX error")}

\* the thread is between mutex.Lock() and the deferred mutex.Unlock()
InLockedSection(t) == threads[t].pc \in {"dial", "write", "read"}

----------------------------------------------------------------------------
(* HasFilterWheel: the presence probe and the driver's three filter wheel calls *)

\* what sendCommandIntReply can fail with: the channel, or a reply not a number
IntReplyErrors ==
    {Err("sendCommand", "TheSkyX error"),
     Err("sendCommandIntReply", "error parsing numeric result")}

\* FilterWheelConnect also fails on a response code other than 0
ConnectErrors ==
    IntReplyErrors \cup {Err("FilterWheelConnect", "response code 1")}

\* the driver's FilterWheelDisconnect is a stub: it sends nothing and fails
DisconnectStubError == Err("FilterWheelDisconnect", "not implemented yet")

\* a driver plugged in with SetDriver may answer a disconnect either way
DisconnectReplies(driver) ==
    IF driver = "real" THEN {DisconnectStubError}
    ELSE {NoError, DisconnectStubError}

IdleProbe ==
    [pc |-> "idle", presence |-> FALSE, err |-> NoError,
     nQuery |-> 0, nConnect |-> 0, nDisconnect |-> 0,
     lastCall |-> "none", queryErr |-> NoError, queryAnswer |-> FALSE,
     connectErr |-> NoError, disconnectErr |-> NoError,
     connectedBefore |-> FALSE]

\* return presence, err
ProbeReturn(p, presence, e) ==
    [p EXCEPT !.pc = "returned", !.presence = presence, !.err = e]

\* a variant that tries to connect whatever the query answered
AfterFilterWheelIsConnectedAlwaysConnects(p, isConnected, e) ==
    LET q == [p EXCEPT !.nQuery = @ + 1, !.lastCall = "query",
                       !.queryErr = e, !.queryAnswer = (e = NoError /\ isConnected)]
    IN  IF e # NoError THEN ProbeReturn(q, FALSE, e)
        ELSE [q EXCEPT !.pc = "connect"]

\* a variant that takes a failed query for "not connected"
AfterFilterWheelIsConnectedSwallowsError(p, isConnected, e) ==
    LET q == [p EXCEPT !.nQuery = @ + 1, !.lastCall = "query",
                       !.queryErr = e, !.queryAnswer = (e = NoError /\ isConnected)]
    IN  IF e = NoError /\ isConnected THEN ProbeReturn(q, TRUE, NoError)
        ELSE [q EXCEPT !.pc = "connect"]

\* isConnected, err := service.driver.FilterWheelIsConnected() and its two tests
AfterFilterWheelIsConnected(p, isConnected, e) ==
    LET q == [p EXCEPT !.nQuery = @ + 1, !.lastCall = "query",
                       !.queryErr = e, !.queryAnswer = (e = NoError /\ isConnected)]
    IN  IF e # NoError THEN ProbeReturn(q, FALSE, e)
        ELSE IF isConnected THEN ProbeReturn(q, TRUE, NoError)
        ELSE [q EXCEPT !.pc = "connect"]

\* a variant that hands a failed connect attempt to the caller
AfterFilterWheelConnectPropagates(p, e) ==
    LET q == [p EXCEPT !.nConnect = @ + 1, !.lastCall = "connect",
                       !.connectErr = e]
    IN  IF e # NoError THEN ProbeReturn(q, FALSE, e)
        ELSE [q EXCEPT !.pc = "disconnect"]

\* err = service.driver.FilterWheelConnect(); if err != nil { return false, nil }
AfterFilterWheelConnect(p, e) ==
    LET q == [p EXCEPT !.nConnect = @ + 1, !.lastCall = "connect",
                       !.connectErr = e]
    IN  IF e # NoError THEN ProbeReturn(q, FALSE, NoError)
        ELSE [q EXCEPT !.pc = "disconnect"]

\* a variant that hands a failed disconnect to the caller
AfterFilterWheelDisconnectPropagates(p, e) ==
    ProbeReturn([p EXCEPT !.nDisconnect = @ + 1, !.lastCall = "disconnect",
                          !.disconnectErr = e],
                e = NoError, e)

\* _ = service.driver.FilterWheelDisconnect(); return true, nil
AfterFilterWheelDisconnect(p, e) ==
    ProbeReturn([p EXCEPT !.nDisconnect = @ + 1, !.lastCall = "disconnect",
                          !.disconnectErr = e],
                TRUE, NoError)

\* the wheel after the driver's FilterWheelConnect script ran without error
WheelAfterConnect(w) == [w EXCEPT !.connected = TRUE]

\* the wheel after the driver's FilterWheelDisconnect: no command is sent
WheelAfterDisconnect(w) == w

----------------------------------------------------------------------------
(* The connection and the camera operations: service and driver *)

\* service.isOpen, driver.isOpen, driver.cameraConnected; and whether ConnectCamera
\* has succeeded since the service became open, and ever on this driver
ClosedLink ==
    [isOpen |-> FALSE, driverOpen |-> FALSE, cameraConnected |-> FALSE,
     cameraSinceOpen |-> FALSE, cameraEver |-> FALSE]

\* what a command sent through sendCommand can fail with
SendErrors ==
    {Err("net.Dial", "connection refused"), Err("sendCommand", "TheSkyX error")}

\* what a driver behind the TheSkyDriver interface can fail Connect and Close with
DriverConnectErrors == {Err("driver.Connect", "failed")}

DriverCloseErrors == {Err("driver.Close", "failed")}

\* the driver's operations that begin with the test of cameraConnected
CameraOperations ==
    {"StartCooling", "StopCooling", "GetCameraTemperature", "GetADUValue",
     "MeasureDownloadTime", "StartDarkFrameCapture", "StartBiasFrameCapture",
     "StartFlatFrameCapture", "IsCaptureDone"}

\* the service's operations that pass straight to one of the driver
ServiceCameraOperations == {"StartCooling", "StopCooling", "GetCameraTemperature"}

\* a finished call: its result, the driver calls and the commands it made, what
\* the first driver call returned, and the connection before and after it
Call(layer, name, before, after, e, nDriver, nSent, firstErr) ==
    [layer |-> layer, name |-> name, err |-> e, nDriver |-> nDriver,
     nSent |-> nSent, firstErr |-> firstErr, before |-> before, after |-> after]

NoCall == Call("none", "none", ClosedLink, ClosedLink, NoError, 0, 0, NoError)

\* driver.Connect: remembers the server; a driver that fails changes nothing
AfterDriverConnect(l, e) ==
    IF e # NoError THEN l ELSE [l EXCEPT !.driverOpen = TRUE]

\* a driver.Close that forgets the camera
AfterDriverCloseForgetsCamera(l, e) ==
    IF e # NoError THEN l
    ELSE [l EXCEPT !.driverOpen = FALSE, !.cameraConnected = FALSE]

\* driver.Close: isOpen = false; cameraConnected stays
AfterDriverClose(l, e) ==
    IF e # NoError THEN l ELSE [l EXCEPT !.driverOpen = FALSE]

\* driver.ConnectCamera: the command, then cameraConnected = true if it went well
AfterDriverConnectCamera(l, e) ==
    IF e # NoError THEN l
    ELSE [l EXCEPT !.cameraConnected = TRUE, !.cameraSinceOpen = TRUE,
                   !.cameraEver = TRUE]

\* a camera operation of the driver: the guard, then the command and its outcome
CameraOperation(name, l, e) ==
    IF ~l.cameraConnected
    THEN [err |-> Err(name, "Camera not connected"), nSent |-> 0]
    ELSE [err |-> e, nSent |-> 1]

\* service.Connect
AfterConnect(l, connectErr, cameraErr) ==
    IF l.isOpen THEN Call("service", "Connect", l, l, NoError, 0, 0, NoError)
    ELSE IF connectErr # NoError
    THEN Call("service", "Connect", l, l, connectErr, 1, 0, connectErr)
    ELSE LET opened == [AfterDriverConnect(l, NoError) EXCEPT
                           !.isOpen = TRUE, !.cameraSinceOpen = FALSE]
         IN  Call("service", "Connect", l,
                  AfterDriverConnectCamera(opened, cameraErr),
                  cameraErr, 2, 1, NoError)

\* a service.Close that marks the service closed whatever the driver says
AfterCloseAlwaysCloses(l, closeErr) ==
    IF ~l.isOpen THEN Call("service", "Close", l, l, NoError, 0, 0, NoError)
    ELSE Call("service", "Close", l,
              [AfterDriverClose(l, closeErr) EXCEPT !.isOpen = FALSE],
              closeErr, 1, 0, closeErr)

\* service.Close
AfterClose(l, closeErr) ==
    IF ~l.isOpen THEN Call("service", "Close", l, l, NoError, 0, 0, NoError)
    ELSE IF closeErr # NoError
    THEN Call("service", "Close", l, l, closeErr, 1, 0, closeErr)
    ELSE Call("service", "Close", l,
              [AfterDriverClose(l, NoError) EXCEPT !.isOpen = FALSE],
              NoError, 1, 0, NoError)

\* service.ConnectCamera
AfterConnectCamera(l, e) ==
    IF ~l.isOpen
    THEN Call("service", "ConnectCamera", l, l,
              Err("ConnectCamera", "Connection not open"), 0, 0, NoError)
    ELSE Call("service", "ConnectCamera", l, AfterDriverConnectCamera(l, e),
              e, 1, 1, e)

\* a StartCooling, StopCooling or GetCameraTemperature that goes to the driver
\* without the test of isOpen
AfterServiceCameraOperationUnguarded(name, l, e) ==
    LET r == CameraOperation(name, l, e)
    IN  Call("service", name, l, l, r.err, 1, r.nSent, r.err)

\* service.StartCooling, StopCooling and GetCameraTemperature
AfterServiceCameraOperation(name, l, e) ==
    IF ~l.isOpen
    THEN Call("service", name, l, l, Err(name, "Connection not open"), 0, 0, NoError)
    ELSE LET r == CameraOperation(name, l, e)
         IN  Call("service", name, l, l, r.err, 1, r.nSent, r.err)

----------------------------------------------------------------------------
(* WaitForCameraInactive *)

WaitTimeoutError ==
    Err("WaitForCameraInactive", "timed out waiting for camera to finish")

IdleWaiting ==
    [pc |-> "idle", err |-> NoError, openBefore |-> FALSE,
     nConnect |-> 0, nPoll |-> 0, nNotDone |-> 0, nDelay |-> 0,
     lastCall |-> "none", lastDone |-> FALSE, collaboratorErr |-> NoError,
     delayFailed |-> FALSE]

WaitReturn(w, e) == [w EXCEPT !.pc = "returned", !.err = e]

\* the test of isOpen, then driver.ConnectCamera()
AfterWaitForCameraInactiveCalled(l, e) ==
    LET w == [IdleWaiting EXCEPT !.openBefore = l.isOpen]
    IN  IF ~l.isOpen
        THEN WaitReturn(w, Err("WaitForCameraInactive", "Connection not open"))
        ELSE LET g == [w EXCEPT !.nConnect = 1, !.lastCall = "connect",
                                !.collaboratorErr = e]
             IN  IF e # NoError THEN WaitReturn(g, e) ELSE [g EXCEPT !.pc = "poll"]

\* a variant that takes a failed IsCaptureDone for "not done" and tries again
AfterWaitPollRetriesOnError(w, done, e) ==
    LET g == [w EXCEPT !.nPoll = @ + 1, !.lastCall = "poll",
                       !.lastDone = (e = NoError /\ done), !.collaboratorErr = e]
    IN  IF e = NoError /\ done THEN WaitReturn(g, NoError)
        ELSE [g EXCEPT !.pc = "delay", !.nNotDone = @ + 1]

\* done, err := service.driver.IsCaptureDone() and the two tests that follow it
AfterWaitPoll(w, done, e) ==
    LET g == [w EXCEPT !.nPoll = @ + 1, !.lastCall = "poll",
                       !.lastDone = (e = NoError /\ done), !.collaboratorErr = e]
    IN  IF e # NoError THEN WaitReturn(g, e)
        ELSE IF done THEN WaitReturn(g, NoError)
        ELSE [g EXCEPT !.pc = "delay", !.nNotDone = @ + 1]

\* _, err = service.delayService.DelayDuration(pollingIntervalSeconds), whose err
\* is not looked at, then the test of time.Now() against timeoutTime
AfterWaitDelay(w, e, timedOut) ==
    LET g == [w EXCEPT !.nDelay = @ + 1, !.lastCall = "delay",
                       !.delayFailed = (@ \/ e # NoError)]
    IN  IF timedOut THEN WaitReturn(g, WaitTimeoutError)
        ELSE [g EXCEPT !.pc = "poll"]

----------------------------------------------------------------------------
(* MeasureDownloadTime: service and driver; times of day in tenths of a second *)

DownloadBinnings == 1..MaxDownloadBinning

IdleDownload ==
    [pc |-> "idle", binning |-> 0, binX |-> 0, binY |-> 0,
     secondsTaken |-> 0, err |-> NoError, openBefore |-> FALSE, nDriver |-> 0]

\* const shortExposureLength = 0.1
shortExposureLength == 1

\* a day, for times of day that pass midnight
DayTenths == 24 * 60 * 60 * 10

\* message.WriteString("ccdsoftCamera.BinX=1;\n") and the same for BinY
DownloadCommandBinX(binning) == 1

DownloadCommandBinY(binning) == 1

\* the times of day TheSkyX reports before the exposure, and how long the
\* exposure with its download takes
TimesBefore == {0, 5000, DayTenths - 10}

DownloadDurations == {11, 26, 51}

\* what the reply to the measurement script can fail with
DownloadReplyErrors ==
    {Err("sendCommand", "TheSkyX error"),
     Err("MeasureDownloadTime", "error parsing timeBefore"),
     Err("MeasureDownloadTime", "error parsing timeAfter")}

\* secondsTaken := (timeAfter-timeBefore)*60.0*60.0 - shortExposureLength, a
\* timeAfter below timeBefore having passed midnight
SecondsTaken(timeBefore, timeAfter) ==
    (IF timeAfter < timeBefore THEN timeAfter + DayTenths ELSE timeAfter)
        - timeBefore - shortExposureLength

\* the guards of the service and of the driver, then the script with its binning
AfterMeasureDownloadTimeCalled(l, binning) ==
    LET d == [IdleDownload EXCEPT !.binning = binning, !.openBefore = l.isOpen,
                                  !.nDriver = IF l.isOpen THEN 1 ELSE 0]
    IN  IF ~l.isOpen
        THEN [d EXCEPT !.pc = "returned",
                       !.err = Err("MeasureDownloadTime", "Connection not open")]
        ELSE IF ~l.cameraConnected
        THEN [d EXCEPT !.pc = "returned",
                       !.err = Err("MeasureDownloadTime", "Camera not connected")]
        ELSE [d EXCEPT !.pc = "sent",
                       !.binX = DownloadCommandBinX(binning),
                       !.binY = DownloadCommandBinY(binning)]

\* the reply: an error with -1.0, or the two times and their difference
AfterMeasureDownloadTimeReply(d, timeBefore, timeAfter, e) ==
    IF e # NoError
    THEN [d EXCEPT !.pc = "returned", !.err = e, !.secondsTaken = -10]
    ELSE [d EXCEPT !.pc = "returned",
                   !.secondsTaken = SecondsTaken(timeBefore, timeAfter)]

----------------------------------------------------------------------------
(* NumberOfFilters and FilterNames; a name is a sequence of characters *)

\* the characters names are made of: white space, a lower-case and an upper-case letter
NameChars == {" ", "a", "A"}

DriverNames == UNION {[1..n -> NameChars] : n \in 0..MaxNameLen}

\* the lists strings.Split(responseBlob, "\t") can give
DriverNameLists == UNION {[1..n -> DriverNames] : n \in 0..MaxNames}

FilterNamesErrors == {Err("sendCommand", "TheSkyX error")}

IsSpace(c) == c = " "

\* the letters of the model in upper and in lower case
UpperOf(c) ==
    CASE c = "n" -> "N" [] c = "o" -> "O" [] c = "e" -> "E" [] c = "r" -> "R"
      [] c = "a" -> "A" [] c = "x" -> "X" [] OTHER -> c

LowerOf(c) ==
    CASE c = "N" -> "n" [] c = "O" -> "o" [] c = "E" -> "e" [] c = "R" -> "r"
      [] c = "A" -> "a" [] c = "X" -> "x" [] OTHER -> c

RECURSIVE TrimLeft(_)
TrimLeft(s) ==
    IF s = <<>> THEN s
    ELSE IF IsSpace(Head(s)) THEN TrimLeft(Tail(s)) ELSE s

RECURSIVE TrimRight(_)
TrimRight(s) ==
    IF s = <<>> THEN s
    ELSE IF IsSpace(s[Len(s)]) THEN TrimRight(SubSeq(s, 1, Len(s) - 1)) ELSE s

\* strings.TrimSpace
TrimSpace(s) == TrimRight(TrimLeft(s))

\* strings.ToLower
ToLower(s) == [i \in 1..Len(s) |-> LowerOf(s[i])]

\* the loop of NumberOfFilters from index i on: count up to the first blank name
RECURSIVE CountFrom(_, _)
CountFrom(filterNames, i) ==
    IF i > Len(filterNames) THEN 0
    ELSE IF TrimSpace(filterNames[i]) = <<>> THEN 0
    ELSE 1 + CountFrom(filterNames, i + 1)

\* NumberOfFilters on the names the driver returned
NumberOfFiltersOf(filterNames) == CountFrom(filterNames, 1)

\* the loop of FilterNames from index i on: the names it overwrites before it breaks
RECURSIVE NamesFrom(_, _)
NamesFrom(filterNames, i) ==
    IF i > Len(filterNames) THEN <<>>
    ELSE LET nameTrimmed == ToLower(TrimSpace(filterNames[i]))
         IN  IF nameTrimmed = <<>> THEN <<>>
             ELSE <<nameTrimmed>> \o NamesFrom(filterNames, i + 1)

\* a FilterNames that stores the lower-cased name without trimming it
FilterNamesOfUntrimmed(filterNames) ==
    [i \in 1..NumberOfFiltersOf(filterNames) |-> ToLower(filterNames[i])]

\* FilterNames on the names the driver returned: filterNames[:count]
FilterNamesOf(filterNames) == NamesFrom(filterNames, 1)

IdleFilters ==
    [driverNames |-> <<>>,
     counted |-> FALSE, count |-> 0, countErr |-> NoError,
     listed |-> FALSE, names |-> <<>>, namesErr |-> NoError]

\* NumberOfFilters: 0 and the driver's error, or the count
AfterNumberOfFilters(f, e) ==
    IF e # NoError
    THEN [f EXCEPT !.counted = TRUE, !.count = 0, !.countErr = e]
    ELSE [f EXCEPT !.counted = TRUE, !.count = NumberOfFiltersOf(f.driverNames),
                   !.countErr = NoError]

\* FilterNames: no names and the driver's error, or the leading names
AfterFilterNames(f, e) ==
    IF e # NoError
    THEN [f EXCEPT !.listed = TRUE, !.names = <<>>, !.namesErr = e]
    ELSE [f EXCEPT !.listed = TRUE, !.names = FilterNamesOf(f.driverNames),
                   !.namesErr = NoError]

----------------------------------------------------------------------------
(* sendCommand: the reply <data>|<error line>; text is a sequence of characters *)

\* the error line that stands for success
NoErrorPrefix == <<"n", "o", " ", "e", "r", "r", "o", "r", ".">>

\* s in every mixture of upper and lower case
CaseVariants(s) ==
    {[i \in 1..Len(s) |-> IF mask[i] THEN UpperOf(s[i]) ELSE s[i]] :
        mask \in [1..Len(s) -> BOOLEAN]}

\* starts of error lines: none, "no error." in any case, and lines close to it
ErrorLineStarts ==
    CaseVariants(NoErrorPrefix)
      \cup {<<>>,
            SubSeq(NoErrorPrefix, 1, 8),
            <<" ">> \o NoErrorPrefix,
            SubSeq(NoErrorPrefix, 1, 8) \o <<"x", ".">>,
            SubSeq(NoErrorPrefix, 4, 9),
            <<"E", "r", "r", "o", "r">>}

ErrorLineSuffixes == UNION {[1..n -> {" ", "X", "0"}] : n \in 0..MaxSuffixLen}

ErrorLines == {start \o suffix : start \in ErrorLineStarts, suffix \in ErrorLineSuffixes}

\* what the script wrote to Out
ReplyData == {<<>>, <<"1">>, <<"0", "\n">>, <<"x", "1">>}

\* strings.Split(s, sep) for a separator of one character
RECURSIVE Split(_, _)
Split(s, sep) ==
    IF \A i \in 1..Len(s) : s[i] # sep THEN <<s>>
    ELSE LET k == CHOOSE i \in 1..Len(s) :
                     s[i] = sep /\ \A j \in 1..(i - 1) : s[j] # sep
         IN  <<SubSeq(s, 1, k - 1)>> \o Split(SubSeq(s, k + 1, Len(s)), sep)

\* strings.HasPrefix
HasPrefix(s, prefix) ==
    Len(s) >= Len(prefix) /\ SubSeq(s, 1, Len(prefix)) = prefix

\* a sendCommand that compares the error line as the server wrote it
sendCommandCaseSensitive(response) ==
    LET responseParts == Split(response, "|")
        errorLine == responseParts[2]
    IN  [text |-> responseParts[1],
         failed |-> ~(errorLine = <<>> \/ HasPrefix(errorLine, NoErrorPrefix)),
         carried |-> IF errorLine = <<>> \/ HasPrefix(errorLine, NoErrorPrefix)
                     THEN <<>> ELSE errorLine,
         panicked |-> FALSE]

\* sendCommand from the reply on: responseParts, responseText, errorLine and the
\* returns; a reply with no "|" has no responseParts[1] in Go and panics
sendCommand(response) ==
    LET responseParts == Split(response, "|")
    IN  IF Len(responseParts) < 2
        THEN [text |-> <<>>, failed |-> TRUE, carried |-> <<>>, panicked |-> TRUE]
        ELSE LET errorLine == ToLower(responseParts[2])
                 ok == errorLine = <<>> \/ HasPrefix(errorLine, NoErrorPrefix)
             IN  [text |-> responseParts[1], failed |-> ~ok,
                  carried |-> IF ok THEN <<>> ELSE errorLine, panicked |-> FALSE]

\* strconv.ParseFloat and strconv.Atoi accept the trimmed text
IsNumber(text) ==
    LET t == TrimSpace(text)
    IN  t # <<>> /\ \A i \in 1..Len(t) : t[i] \in {"0", "1"}

Wrappers == {"IgnoreReply", "StringReply", "FloatReply", "IntReply"}

\* sendCommandIgnoreReply, sendCommandStringReply, sendCommandFloatReply and
\* sendCommandIntReply return an error
WrapperFails(wrapper, sent) ==
    \/ sent.failed
    \/ wrapper \in {"FloatReply", "IntReply"} /\ ~IsNumber(sent.text)

IdleReply ==
    [data |-> <<>>, errorLine |-> <<>>, text |-> <<>>, failed |-> FALSE,
     carried |-> <<>>, panicked |-> FALSE, failedWrappers |-> {}, received |-> FALSE]

\* a command's reply and what sendCommand and the four wrappers make of it
AfterReply(data, errorLine) ==
    LET sent == sendCommand(data \o <<"|">> \o errorLine)
    IN  [data |-> data, errorLine |-> errorLine, text |-> sent.text,
         failed |-> sent.failed, carried |-> sent.carried,
         panicked |-> sent.panicked,
         failedWrappers |-> {w \in Wrappers : WrapperFails(w, sent)},
         received |-> TRUE]

----------------------------------------------------------------------------
(* The service: construction and the steps of one capture call *)

\* NewTheSkyService: simulateFlatFrameADUs is the caller's, the noise fraction 0.2
Init ==
    /\ simulateFlatCapture \in BOOLEAN
    /\ simulationNoiseFraction = 2
    /\ frame = IdleFrame
    /\ twin = IdleFrame
    /\ reportsDiffered = FALSE
    /\ wheel = [driver |-> "real", present |-> FALSE, connected |-> FALSE]
    /\ probe = IdleProbe
    /\ threads = [t \in Threads |-> IdleThread]
    /\ mutex = [m \in Threads |-> FALSE]
    /\ sim = IdleSim
    /\ link = ClosedLink
    /\ download = IdleDownload
    /\ filters = IdleFilters
    /\ served = NoCall
    /\ waiting = IdleWaiting
    /\ reply = IdleReply

SetSimulationNoiseFraction ==
    /\ frame.pc = "idle"
    /\ \E fraction \in NoiseFractions : simulationNoiseFraction' = fraction
    /\ UNCHANGED <<simulateFlatCapture, frame, twin, reportsDiffered>>
    /\ UNCHANGED nonCaptureVars

CaptureDarkFrame ==
    /\ frame.pc = "idle"
    /\ \E binning \in Binnings, seconds \in Exposures, downloadTime \in DownloadTimes :
          frame' = Enter("dark", binning, seconds, downloadTime,
                         FilterSlotNoFilter, FALSE)
    /\ UNCHANGED <<simulateFlatCapture, simulationNoiseFraction, twin, reportsDiffered>>
    /\ UNCHANGED nonCaptureVars

CaptureBiasFrame ==
    /\ frame.pc = "idle"
    /\ \E binning \in Binnings, downloadTime \in DownloadTimes :
          frame' = Enter("bias", binning, 0, downloadTime, FilterSlotNoFilter, FALSE)
    /\ UNCHANGED <<simulateFlatCapture, simulationNoiseFraction, twin, reportsDiffered>>
    /\ UNCHANGED nonCaptureVars

CaptureAndMeasureFlatFrame ==
    /\ frame.pc = "idle"
    /\ \E exposure \in Exposures, binning \in Binnings, filterSlot \in FilterSlots,
          downloadTime \in DownloadTimes :
          frame' = Enter("flat", binning, exposure, downloadTime, filterSlot, FALSE)
    /\ UNCHANGED <<simulateFlatCapture, simulationNoiseFraction, twin, reportsDiffered>>
    /\ UNCHANGED nonCaptureVars

StartCapture ==
    /\ frame.pc = "start"
    /\ \E e \in {NoError} \cup DriverErrors(StartCommandName(frame.kind)) :
          frame' = AfterStart(frame, e)
    /\ UNCHANGED <<simulateFlatCapture, simulationNoiseFraction, twin, reportsDiffered>>
    /\ UNCHANGED nonCaptureVars

InitialDelay ==
    /\ frame.pc = "initialDelay"
    /\ \E e \in {NoError} \cup DelayErrors :
       \E reported \in ReportedDelays(DelayUntilComplete(NominalExposure(frame),
                                                         frame.downloadTime)) :
          frame' = AfterInitialDelay(frame, reported * 10, e)
    /\ UNCHANGED <<simulateFlatCapture, simulationNoiseFraction, twin, reportsDiffered>>
    /\ UNCHANGED nonCaptureVars

Poll ==
    /\ frame.pc = "poll"
    /\ \/ \E done \in BOOLEAN : frame' = AfterPoll(frame, done, NoError)
       \/ \E e \in DriverErrors("IsCaptureDone") : frame' = AfterPoll(frame, FALSE, e)
    /\ UNCHANGED <<simulateFlatCapture, simulationNoiseFraction, twin, reportsDiffered>>
    /\ UNCHANGED nonCaptureVars

PollDelay ==
    /\ frame.pc = "pollDelay"
    /\ \E e \in {NoError} \cup DelayErrors :
       \E reported \in ReportedDelays(PollDelayArg) :
          frame' = AfterPollDelay(frame, reported * 10, e)
    /\ UNCHANGED <<simulateFlatCapture, simulationNoiseFraction, twin, reportsDiffered>>
    /\ UNCHANGED nonCaptureVars

Measure ==
    /\ frame.pc = "measure"
    /\ \/ \E adu \in ADUValues, draw \in NoiseDraws :
             frame' = AfterMeasure(frame, adu, NoError, simulateFlatCapture,
                                   simulationNoiseFraction, draw)
       \/ \E e \in ADUErrors :
             frame' = AfterMeasure(frame, 0, e, simulateFlatCapture,
                                   simulationNoiseFraction, 0)
    /\ UNCHANGED <<simulateFlatCapture, simulationNoiseFraction, twin, reportsDiffered>>
    /\ UNCHANGED nonCaptureVars

Next ==
    \/ SetSimulationNoiseFraction
    \/ CaptureDarkFrame
    \/ CaptureBiasFrame
    \/ CaptureAndMeasureFlatFrame
    \/ StartCapture
    \/ InitialDelay
    \/ Poll
    \/ PollDelay
    \/ Measure

Spec == Init /\ [][Next]_vars

----------------------------------------------------------------------------
(* Two runs of one call side by side: the same arguments and the same driver   *)
(* replies and delay failures, but each run is told its own actual delay.       *)

\* both runs take the step; a run that has left this step's place stays put
TwinStep(next, twinNext) ==
    /\ frame' = next
    /\ twin' = IF twin.pc = frame.pc THEN twinNext ELSE twin
    /\ UNCHANGED <<simulateFlatCapture, simulationNoiseFraction>>
    /\ UNCHANGED nonCaptureVars

TwinEnter ==
    /\ frame.pc = "idle"
    /\ \E kind \in Kinds, binning \in Binnings, seconds \in Exposures,
          downloadTime \in DownloadTimes, filterSlot \in FilterSlots :
          LET entered ==
                  Enter(kind, binning, IF kind = "bias" THEN 0 ELSE seconds,
                        downloadTime,
                        IF kind = "flat" THEN filterSlot ELSE FilterSlotNoFilter,
                        FALSE)
          IN  TwinStep(entered, entered)
    /\ UNCHANGED reportsDiffered

TwinStart ==
    /\ frame.pc = "start"
    /\ \E e \in {NoError} \cup DriverErrors(StartCommandName(frame.kind)) :
          TwinStep(AfterStart(frame, e), AfterStart(twin, e))
    /\ UNCHANGED reportsDiffered

TwinInitialDelay ==
    /\ frame.pc = "initialDelay"
    /\ \E e \in {NoError} \cup DelayErrors :
       \E reported, twinReported \in
              ReportedDelays(DelayUntilComplete(NominalExposure(frame),
                                                frame.downloadTime)) :
          /\ TwinStep(AfterInitialDelay(frame, reported * 10, e),
                      AfterInitialDelay(twin, twinReported * 10, e))
          /\ reportsDiffered' = (reportsDiffered \/ reported # twinReported)

TwinPoll ==
    /\ frame.pc = "poll"
    /\ \/ \E done \in BOOLEAN :
             TwinStep(AfterPoll(frame, done, NoError), AfterPoll(twin, done, NoError))
       \/ \E e \in DriverErrors("IsCaptureDone") :
             TwinStep(AfterPoll(frame, FALSE, e), AfterPoll(twin, FALSE, e))
    /\ UNCHANGED reportsDiffered

TwinPollDelay ==
    /\ frame.pc = "pollDelay"
    /\ \E e \in {NoError} \cup DelayErrors :
       \E reported, twinReported \in ReportedDelays(PollDelayArg) :
          /\ TwinStep(AfterPollDelay(frame, reported * 10, e),
                      AfterPollDelay(twin, twinReported * 10, e))
          /\ reportsDiffered' = (reportsDiffered \/ reported # twinReported)

TwinMeasure ==
    /\ frame.pc = "measure"
    /\ \/ \E adu \in ADUValues, draw \in NoiseDraws :
             TwinStep(AfterMeasure(frame, adu, NoError, simulateFlatCapture,
                                   simulationNoiseFraction, draw),
                      AfterMeasure(twin, adu, NoError, simulateFlatCapture,
                                   simulationNoiseFraction, draw))
       \/ \E e \in ADUErrors :
             TwinStep(AfterMeasure(frame, 0, e, simulateFlatCapture,
                                   simulationNoiseFraction, 0),
                      AfterMeasure(twin, 0, e, simulateFlatCapture,
                                   simulationNoiseFraction, 0))
    /\ UNCHANGED reportsDiffered

NextTwin ==
    \/ TwinEnter
    \/ TwinStart
    \/ TwinInitialDelay
    \/ TwinPoll
    \/ TwinPollDelay
    \/ TwinMeasure

SpecTwin == Init /\ [][NextTwin]_vars

----------------------------------------------------------------------------
(* One flat capture in the two simulation modes side by side: frame runs in    *)
(* the mode the service was built with, twin in the other one; both are given  *)
(* the same arguments and the same replies of the driver and the delay service *)

ModesEnter ==
    /\ frame.pc = "idle"
    /\ \E exposure \in Exposures, binning \in Binnings, filterSlot \in FilterSlots,
          downloadTime \in DownloadTimes :
          LET entered == Enter("flat", binning, exposure, downloadTime,
                               filterSlot, FALSE)
          IN  TwinStep(entered, entered)
    /\ UNCHANGED reportsDiffered

ModesInitialDelay ==
    /\ frame.pc = "initialDelay"
    /\ \E e \in {NoError} \cup DelayErrors :
       \E reported \in ReportedDelays(DelayUntilComplete(NominalExposure(frame),
                                                         frame.downloadTime)) :
          TwinStep(AfterInitialDelay(frame, reported * 10, e),
                   AfterInitialDelay(twin, reported * 10, e))
    /\ UNCHANGED reportsDiffered

ModesPollDelay ==
    /\ frame.pc = "pollDelay"
    /\ \E e \in {NoError} \cup DelayErrors :
       \E reported \in ReportedDelays(PollDelayArg) :
          TwinStep(AfterPollDelay(frame, reported * 10, e),
                   AfterPollDelay(twin, reported * 10, e))
    /\ UNCHANGED reportsDiffered

ModesMeasure ==
    /\ frame.pc = "measure"
    /\ \/ \E adu \in ADUValues, draw \in NoiseDraws :
             TwinStep(AfterMeasure(frame, adu, NoError, simulateFlatCapture,
                                   simulationNoiseFraction, draw),
                      AfterMeasure(twin, adu, NoError, ~simulateFlatCapture,
                                   simulationNoiseFraction, draw))
       \/ \E e \in ADUErrors :
             TwinStep(AfterMeasure(frame, 0, e, simulateFlatCapture,
                                   simulationNoiseFraction, 0),
                      AfterMeasure(twin, 0, e, ~simulateFlatCapture,
                                   simulationNoiseFraction, 0))
    /\ UNCHANGED reportsDiffered

NextModes ==
    \/ ModesEnter
    \/ TwinStart
    \/ ModesInitialDelay
    \/ TwinPoll
    \/ ModesPollDelay
    \/ ModesMeasure

SpecModes == Init /\ [][NextModes]_vars

----------------------------------------------------------------------------
(* A dark capture (frame) beside a flat or a bias capture (twin): the flat one *)
(* with the dark one's exposure, the bias one beside a dark capture of 0.1 s;  *)
(* the same download time and the same replies to both                         *)

KindsEnter ==
    /\ frame.pc = "idle"
    /\ \E binning \in Binnings, seconds \in Exposures,
          downloadTime \in DownloadTimes, filterSlot \in FilterSlots :
          \/ /\ frame' = Enter("dark", binning, seconds, downloadTime,
                               FilterSlotNoFilter, FALSE)
             /\ twin' = Enter("flat", binning, seconds, downloadTime,
                              filterSlot, FALSE)
          \/ /\ frame' = Enter("dark", binning, shortTimeForBiasExposure,
                               downloadTime, FilterSlotNoFilter, FALSE)
             /\ twin' = Enter("bias", binning, 0, downloadTime,
                              FilterSlotNoFilter, FALSE)
    /\ UNCHANGED <<simulateFlatCapture, simulationNoiseFraction, reportsDiffered>>
    /\ UNCHANGED nonCaptureVars

\* the flat capture's measurement, after the dark capture has returned
KindsMeasure ==
    /\ twin.pc = "measure"
    /\ \/ \E adu \in ADUValues, draw \in NoiseDraws :
             twin' = AfterMeasure(twin, adu, NoError, simulateFlatCapture,
                                  simulationNoiseFraction, draw)
       \/ \E e \in ADUErrors :
             twin' = AfterMeasure(twin, 0, e, simulateFlatCapture,
                                  simulationNoiseFraction, 0)
    /\ UNCHANGED <<simulateFlatCapture, simulationNoiseFraction, frame,
                   reportsDiffered>>
    /\ UNCHANGED nonCaptureVars

NextKinds ==
    \/ KindsEnter
    \/ TwinStart
    \/ ModesInitialDelay
    \/ TwinPoll
    \/ ModesPollDelay
    \/ KindsMeasure

SpecKinds == Init /\ [][NextKinds]_vars

----------------------------------------------------------------------------
(* The presence probe on the driver the service holds: the real one, whose     *)
(* answers come from the filter wheel behind TheSkyX, or one plugged in with   *)
(* SetDriver, which answers anything                                            *)

ProbeAtRest == probe.pc \in {"idle", "returned"}

\* service.SetDriver(driver), between calls
SetDriver ==
    /\ ProbeAtRest
    /\ \E kind \in {"real", "mock"} :
          /\ kind # wheel.driver
          /\ wheel' = [wheel EXCEPT !.driver = kind]
    /\ probe' = IdleProbe
    /\ UNCHANGED nonWheelVars

\* between calls the wheel is fitted, removed, connected or disconnected by hand
WheelChanges ==
    /\ ProbeAtRest
    /\ \E present, connected \in BOOLEAN :
          /\ connected => present
          /\ <<present, connected>> # <<wheel.present, wheel.connected>>
          /\ wheel' = [wheel EXCEPT !.present = present, !.connected = connected]
    /\ probe' = IdleProbe
    /\ UNCHANGED nonWheelVars

\* entry of HasFilterWheel; connectedBefore keeps the wheel's state at the call
HasFilterWheel ==
    /\ ProbeAtRest
    /\ probe' = [IdleProbe EXCEPT !.pc = "query",
                                  !.connectedBefore = wheel.connected]
    /\ UNCHANGED <<nonWheelVars, wheel>>

\* driver.FilterWheelIsConnected(): responseCode == 1, or sendCommandIntReply's error
FilterWheelIsConnected ==
    /\ probe.pc = "query"
    /\ \/ \E e \in IntReplyErrors :
             probe' = AfterFilterWheelIsConnected(probe, FALSE, e)
       \/ /\ wheel.driver = "real"
          /\ probe' = AfterFilterWheelIsConnected(probe, wheel.connected, NoError)
       \/ /\ wheel.driver = "mock"
          /\ \E answer \in BOOLEAN :
                probe' = AfterFilterWheelIsConnected(probe, answer, NoError)
    /\ UNCHANGED <<nonWheelVars, wheel>>

\* driver.FilterWheelConnect(): nil on response code 0, which a wheel that is
\* there gives; an error otherwise
FilterWheelConnect ==
    /\ probe.pc = "connect"
    /\ \/ /\ \E e \in ConnectErrors : probe' = AfterFilterWheelConnect(probe, e)
          /\ UNCHANGED wheel
       \/ /\ wheel.driver = "real" /\ wheel.present
          /\ probe' = AfterFilterWheelConnect(probe, NoError)
          /\ wheel' = WheelAfterConnect(wheel)
       \/ /\ wheel.driver = "mock"
          /\ probe' = AfterFilterWheelConnect(probe, NoError)
          /\ UNCHANGED wheel
    /\ UNCHANGED nonWheelVars

\* driver.FilterWheelDisconnect()
FilterWheelDisconnect ==
    /\ probe.pc = "disconnect"
    /\ \E e \in DisconnectReplies(wheel.driver) :
          probe' = AfterFilterWheelDisconnect(probe, e)
    /\ wheel' = IF wheel.driver = "real" THEN WheelAfterDisconnect(wheel) ELSE wheel
    /\ UNCHANGED nonWheelVars

NextWheel ==
    \/ SetDriver
    \/ WheelChanges
    \/ HasFilterWheel
    \/ FilterWheelIsConnected
    \/ FilterWheelConnect
    \/ FilterWheelDisconnect

SpecWheel == Init /\ [][NextWheel]_vars

----------------------------------------------------------------------------
(* Concurrent sendCommand calls on one driver *)

\* the deferred calls of a returning sendCommand: close the socket, unlock
SendCommandReturn(t, e) ==
    /\ threads' = [threads EXCEPT ![t] = [pc |-> "returned", err |-> e]]
    /\ mutex' = [mutex EXCEPT ![MutexOf(t)] = FALSE]

\* var mutex sync.Mutex; mutex.Lock(): blocks while that mutex is locked
SendCommandLock(t) ==
    /\ threads[t].pc = "idle"
    /\ ~mutex[MutexOf(t)]
    /\ mutex' = [mutex EXCEPT ![MutexOf(t)] = TRUE]
    /\ threads' = [threads EXCEPT ![t].pc = "dial"]
    /\ UNCHANGED nonChannelVars

\* conn, err := net.Dial("tcp", ...)
SendCommandDial(t) ==
    /\ threads[t].pc = "dial"
    /\ \/ threads' = [threads EXCEPT ![t].pc = "write"] /\ UNCHANGED mutex
       \/ \E e \in DialErrors : SendCommandReturn(t, e)
    /\ UNCHANGED nonChannelVars

\* numWritten, err := conn.Write([]byte(command)) and the test of numWritten
SendCommandWrite(t) ==
    /\ threads[t].pc = "write"
    /\ \/ threads' = [threads EXCEPT ![t].pc = "read"] /\ UNCHANGED mutex
       \/ \E e \in WriteErrors : SendCommandReturn(t, e)
    /\ UNCHANGED nonChannelVars

\* numRead, err := conn.Read(responseBuffer) and the reading of the error line
SendCommandRead(t) ==
    /\ threads[t].pc = "read"
    /\ \E e \in ReadErrors \cup ReplyErrors : SendCommandReturn(t, e)
    /\ UNCHANGED nonChannelVars

\* the caller takes the result; the thread may call again
SendCommandDone(t) ==
    /\ threads[t].pc = "returned"
    /\ threads' = [threads EXCEPT ![t] = IdleThread]
    /\ UNCHANGED <<mutex, nonChannelVars>>

NextChannel ==
    \/ \E t \in Threads : SendCommandLock(t)
    \/ \E t \in Threads : SendCommandDial(t)
    \/ \E t \in Threads : SendCommandWrite(t)
    \/ \E t \in Threads : SendCommandRead(t)
    \/ \E t \in Threads : SendCommandDone(t)

SpecChannel == Init /\ [][NextChannel]_vars

----------------------------------------------------------------------------
(* simulatedFrameCapture on its own, over more binnings and filter slots than  *)
(* the capture runs use                                                         *)

\* service.simulatedFrameCapture(exposure, binning, filterSlot, _, _)
SimulatedFrameCapture ==
    /\ \E exposure \in SimExposures, binning \in SimBinnings,
          filterSlot \in SimFilterSlots, draw \in NoiseDraws :
          sim' = [pc |-> "done", exposure |-> exposure, binning |-> binning,
                  filterSlot |-> filterSlot,
                  noiseFraction |-> simulationNoiseFraction, draw |-> draw,
                  result |-> simulatedFrameCapture(exposure, binning, filterSlot,
                                                   simulationNoiseFraction, draw)]
    /\ UNCHANGED <<simulationNoiseFraction, nonSimVars>>

NextSim ==
    \/ SetSimulationNoiseFraction
    \/ SimulatedFrameCapture

SpecSim == Init /\ [][NextSim]_vars

----------------------------------------------------------------------------
(* The connection, and the measurement of the download time *)

DownloadAtRest == download.pc \in {"idle", "returned"}

\* no call of the service is in progress
AtRest == DownloadAtRest /\ waiting.pc \in {"idle", "returned"}

\* service.Connect, with what driver.Connect and driver.ConnectCamera return
Connect ==
    /\ AtRest
    /\ \E connectErr \in DriverConnectErrors \cup {NoError},
          cameraErr \in SendErrors \cup {NoError} :
          /\ served' = AfterConnect(link, connectErr, cameraErr)
          /\ link' = served'.after
    /\ UNCHANGED <<download, waiting, nonLinkVars>>

\* service.Close, with what driver.Close returns
Close ==
    /\ AtRest
    /\ \E closeErr \in DriverCloseErrors \cup {NoError} :
          /\ served' = AfterClose(link, closeErr)
          /\ link' = served'.after
    /\ UNCHANGED <<download, waiting, nonLinkVars>>

\* service.ConnectCamera
ConnectCamera ==
    /\ AtRest
    /\ \E e \in SendErrors \cup {NoError} :
          /\ served' = AfterConnectCamera(link, e)
          /\ link' = served'.after
    /\ UNCHANGED <<download, waiting, nonLinkVars>>

\* service.StartCooling, StopCooling, GetCameraTemperature
ServiceCameraOperation ==
    /\ AtRest
    /\ \E name \in ServiceCameraOperations, e \in SendErrors \cup {NoError} :
          served' = AfterServiceCameraOperation(name, link, e)
    /\ UNCHANGED <<link, download, waiting, nonLinkVars>>

\* service.MeasureDownloadTime(binning) down to the driver's sending of the script
MeasureDownloadTime ==
    /\ AtRest
    /\ \E binning \in DownloadBinnings :
          download' = AfterMeasureDownloadTimeCalled(link, binning)
    /\ UNCHANGED <<link, served, waiting, nonLinkVars>>

\* the reply to the script
MeasureDownloadTimeReply ==
    /\ download.pc = "sent"
    /\ \/ \E e \in DownloadReplyErrors :
             download' = AfterMeasureDownloadTimeReply(download, 0, 0, e)
       \/ \E timeBefore \in TimesBefore, duration \in DownloadDurations :
             download' = AfterMeasureDownloadTimeReply(
                             download, timeBefore,
                             (timeBefore + duration) % DayTenths, NoError)
    /\ UNCHANGED <<link, served, waiting, nonLinkVars>>

NextDownload ==
    \/ Connect
    \/ Close
    \/ MeasureDownloadTime
    \/ MeasureDownloadTimeReply

SpecDownload == Init /\ [][NextDownload]_vars

\* service.WaitForCameraInactive down to its camera connect
WaitForCameraInactive ==
    /\ AtRest
    /\ \E e \in SendErrors \cup {NoError} :
          /\ waiting' = AfterWaitForCameraInactiveCalled(link, e)
          /\ link' = IF link.isOpen THEN AfterDriverConnectCamera(link, e) ELSE link
    /\ UNCHANGED <<download, served, nonLinkVars>>

\* one IsCaptureDone of the loop
WaitPoll ==
    /\ waiting.pc = "poll"
    /\ \E done \in BOOLEAN, e \in SendErrors \cup {NoError} :
          waiting' = AfterWaitPoll(waiting, done, e)
    /\ UNCHANGED <<link, download, served, nonLinkVars>>

\* one DelayDuration of the loop; the deadline has passed or not when it returns,
\* and has passed after MaxWaitDelays of them
WaitDelay ==
    /\ waiting.pc = "delay"
    /\ \E e \in DelayErrors \cup {NoError}, timedOut \in BOOLEAN :
          /\ waiting.nDelay + 1 >= MaxWaitDelays => timedOut
          /\ waiting' = AfterWaitDelay(waiting, e, timedOut)
    /\ UNCHANGED <<link, download, served, nonLinkVars>>

NextSession ==
    \/ Connect
    \/ Close
    \/ ConnectCamera
    \/ ServiceCameraOperation
    \/ MeasureDownloadTime
    \/ MeasureDownloadTimeReply
    \/ WaitForCameraInactive
    \/ WaitPoll
    \/ WaitDelay

SpecSession == Init /\ [][NextSession]_vars

----------------------------------------------------------------------------
(* The names of the filters *)

\* the wheel is set up, once, with its names: what driver.FilterNames returns
FilterWheelNamed ==
    /\ filters = IdleFilters
    /\ \E driverNames \in DriverNameLists :
          filters' = [IdleFilters EXCEPT !.driverNames = driverNames]
    /\ UNCHANGED <<subsystemVars, served, waiting, reply>>

\* service.NumberOfFilters
NumberOfFilters ==
    /\ \E e \in FilterNamesErrors \cup {NoError} :
          filters' = AfterNumberOfFilters(filters, e)
    /\ UNCHANGED <<subsystemVars, served, waiting, reply>>

\* service.FilterNames
FilterNames ==
    /\ \E e \in FilterNamesErrors \cup {NoError} :
          filters' = AfterFilterNames(filters, e)
    /\ UNCHANGED <<subsystemVars, served, waiting, reply>>

NextFilters ==
    \/ FilterWheelNamed
    \/ NumberOfFilters
    \/ FilterNames

SpecFilters == Init /\ [][NextFilters]_vars

----------------------------------------------------------------------------
(* The driver called directly *)

\* driver.Connect
DriverConnect ==
    /\ AtRest
    /\ served' = Call("driver", "Connect", link, AfterDriverConnect(link, NoError),
                      NoError, 0, 0, NoError)
    /\ link' = served'.after
    /\ UNCHANGED <<download, waiting, nonLinkVars>>

\* driver.Close
DriverClose ==
    /\ AtRest
    /\ served' = Call("driver", "Close", link, AfterDriverClose(link, NoError),
                      NoError, 0, 0, NoError)
    /\ link' = served'.after
    /\ UNCHANGED <<download, waiting, nonLinkVars>>

\* driver.ConnectCamera
DriverConnectCamera ==
    /\ AtRest
    /\ \E e \in SendErrors \cup {NoError} :
          served' = Call("driver", "ConnectCamera", link,
                         AfterDriverConnectCamera(link, e), e, 0, 1, e)
    /\ link' = served'.after
    /\ UNCHANGED <<download, waiting, nonLinkVars>>

\* one of the driver's camera operations
DriverCameraOperation ==
    /\ AtRest
    /\ \E name \in CameraOperations, e \in SendErrors \cup {NoError} :
          LET r == CameraOperation(name, link, e)
          IN  served' = Call("driver", name, link, link, r.err, 0, r.nSent, NoError)
    /\ UNCHANGED <<link, download, waiting, nonLinkVars>>

NextDriver ==
    \/ DriverConnect
    \/ DriverClose
    \/ DriverConnectCamera
    \/ DriverCameraOperation

SpecDriver == Init /\ [][NextDriver]_vars

----------------------------------------------------------------------------
(* The replies of the server *)

\* a command is sent and the server replies <data>|<error line>
SendCommandReply ==
    /\ ~reply.received
    /\ \E data \in ReplyData, errorLine \in ErrorLines :
          reply' = AfterReply(data, errorLine)
    /\ UNCHANGED <<subsystemVars, filters, served, waiting>>

NextReply == SendCommandReply

SpecReply == Init /\ [][NextReply]_vars

----------------------------------------------------------------------------
(* Vocabulary of the properties *)

Returned == frame.pc = "returned"

\* the call ended in the timeout failure of its own operation
TimeoutReported ==
    /\ Returned
    /\ frame.failedCall = "none"
    /\ frame.err # NoError

\* completion was confirmed and nothing has failed since
Succeeding ==
    \/ frame.pc = "returned" /\ frame.err = NoError
    \/ frame.kind = "flat" /\ frame.pc = "measure"

\* the wait limit as the specification words it, in tenths of a second
SpecNominal == IF frame.kind = "bias" THEN 1 ELSE frame.seconds

SpecFloor == IF frame.kind = "bias" THEN 1800 ELSE 6000

SpecLimit ==
    IF 5 * (SpecNominal + frame.downloadTime) > SpecFloor
    THEN 5 * (SpecNominal + frame.downloadTime)
    ELSE SpecFloor

\* a poll has just answered "not complete" without failing
NotCompletePoll ==
    /\ frame.lastCall = "poll"
    /\ ~frame.lastDone
    /\ frame.failedCall = "none"

----------------------------------------------------------------------------
(* C1: with every poll answering not-complete and no collaborator failing, a   *)
(* capture of any kind ends in its timeout failure, at the first not-complete  *)
(* poll whose accumulated nominal wait exceeds max(5 x (nominal exposure +     *)
(* download time), floor), floor 600 s for dark and flat and 180 s for bias,   *)
(* and at no earlier poll.                                                     *)
TimeoutAtFirstPollPastLimit ==
    /\ TimeoutReported =>
          /\ NotCompletePoll
          /\ frame.err = [where |-> OperationName(frame.kind),
                          text |-> "Timeout waiting for capture to finish"]
          /\ frame.secondsWaitedSoFar > SpecLimit
          /\ frame.secondsWaitedSoFar - 20 <= SpecLimit
          /\ frame.secondsWaitedSoFar = 20 * (frame.nPoll - 1)
    /\ (NotCompletePoll /\ frame.secondsWaitedSoFar > SpecLimit) => TimeoutReported
    /\ (NotCompletePoll /\ frame.secondsWaitedSoFar <= SpecLimit) =>
          frame.pc = "pollDelay"
    /\ 20 * frame.nPoll <= SpecLimit + 40

\* dark frame, 125 s exposure, 5 s download: limit 650 s, timeout at 652 s
TimeoutWitness ==
    /\ TimeoutReported
    /\ frame.kind = "dark" /\ frame.seconds = 1250 /\ frame.downloadTime = 50
    /\ frame.secondsWaitedSoFar = 6520
    /\ frame.nPoll = 327

(* C2: if the polls answer not-complete N times and then complete, the call    *)
(* succeeds after exactly one initial delay request, exactly N requests of the *)
(* 2 s polling delay and N+1 polls, and the elapsed-seconds accumulator is     *)
(* N x pollingInterval when it returns.  A flat capture goes on from the       *)
(* complete poll to its brightness measurement; "succeeds" is then: nothing    *)
(* but that measurement can still fail the call.                               *)
SuccessAfterNWaits ==
    frame.lastDone =>
        /\ Succeeding \/ frame.failedCall = "measure"
        /\ frame.nStart = 1
        /\ frame.nInitialDelay = 1
        /\ frame.nPollDelay = frame.nPoll - 1
        /\ frame.nPollDelay > 0 => frame.pollDelayArg = 2
        /\ frame.secondsWaitedSoFar = 20 * (frame.nPoll - 1)

\* the test "capture dark frame requiring two extra waits"
TwoExtraWaitsWitness ==
    /\ Returned /\ frame.err = NoError /\ frame.lastDone
    /\ frame.kind = "dark" /\ frame.seconds = 200 /\ frame.downloadTime = 50
    /\ frame.nPoll = 3 /\ frame.nPollDelay = 2 /\ frame.secondsWaitedSoFar = 40

(* C3: if the first completion poll answers complete, exactly one start        *)
(* command, one initial delay request and one poll have been issued, no        *)
(* polling delay was requested, and the call succeeds (dark frame, 20 s        *)
(* exposure, 5 s download: the initial delay is 26 s).  For a flat capture the *)
(* one measurement follows the poll, and only its failure can fail the call.   *)
ReadyOnFirstPoll ==
    (frame.nPoll = 1 /\ frame.lastDone) =>
        /\ frame.nStart = 1
        /\ frame.nInitialDelay = 1
        /\ frame.nPollDelay = 0
        /\ frame.secondsWaitedSoFar = 0
        /\ frame.kind # "flat" => (Returned /\ frame.err = NoError)
        /\ frame.kind = "flat" =>
              \/ frame.pc = "measure"
              \/ Returned /\ frame.nADU = 1
                    /\ (frame.err = NoError \/ frame.failedCall = "measure")
        /\ (frame.kind = "dark" /\ frame.seconds = 200 /\ frame.downloadTime = 50)
              => frame.firstDelayArg = 26

\* the test "capture dark frame ready on time"
ReadyOnTimeWitness ==
    /\ Returned /\ frame.err = NoError
    /\ frame.kind = "dark" /\ frame.binning = 1
    /\ frame.seconds = 200 /\ frame.downloadTime = 50
    /\ frame.nStart = 1 /\ frame.nInitialDelay = 1 /\ frame.firstDelayArg = 26
    /\ frame.nPoll = 1 /\ frame.nPollDelay = 0

(* C4: for every capture kind and every exposure and download time that are   *)
(* not negative, the first duration requested from the delay service is        *)
(* round(nominal exposure + download time + 0.5) whole seconds, the nominal    *)
(* exposure being the caller's for dark and flat and 0.1 s for bias; 20 s and  *)
(* 5 s give 26.                                                                *)
InitialDelayIsRounded ==
    (frame.nInitialDelay >= 1 /\ SpecNominal >= 0 /\ frame.downloadTime >= 0) =>
        /\ frame.nInitialDelay = 1
        /\ 10 * frame.firstDelayArg - 5 <= SpecNominal + frame.downloadTime + 5
        /\ SpecNominal + frame.downloadTime + 5 < 10 * frame.firstDelayArg + 5
        /\ (frame.kind # "bias" /\ frame.seconds = 200 /\ frame.downloadTime = 50)
              => frame.firstDelayArg = 26

\* bias frame, 2.5 s download: round(0.1 + 2.5 + 0.5) = 3
BiasInitialDelayWitness ==
    /\ frame.kind = "bias" /\ frame.downloadTime = 25
    /\ frame.pc = "poll" /\ frame.nInitialDelay = 1 /\ frame.firstDelayArg = 3

(* C5: if the start command fails, the capture returns that failure at once:   *)
(* no delay is requested, no poll is made, nothing is measured and the start   *)
(* command is not issued a second time.                                        *)
StartFailureIsFatal ==
    frame.failedCall = "start" =>
        /\ Returned
        /\ frame.err = frame.collaboratorErr
        /\ frame.nStart = 1
        /\ frame.nInitialDelay = 0 /\ frame.nPollDelay = 0
        /\ frame.nPoll = 0 /\ frame.nADU = 0

StartFailureWitness ==
    /\ frame.failedCall = "start" /\ frame.kind = "flat" /\ Returned
    /\ frame.err = [where |-> "StartFlatFrameCapture", text |-> "Camera not connected"]

(* C6: if a completion poll fails, the capture returns that failure at once:   *)
(* no poll, no delay request and, for flat, no brightness measurement follows  *)
(* the failed poll.                                                            *)
PollFailureIsFatal ==
    frame.failedCall = "poll" =>
        /\ Returned
        /\ frame.err = frame.collaboratorErr
        /\ frame.lastCall = "poll"
        /\ frame.nPollDelay = frame.nPoll - 1
        /\ frame.nADU = 0
        /\ frame.aduValue = 0

PollFailureWitness ==
    /\ frame.failedCall = "poll" /\ frame.kind = "flat" /\ Returned
    /\ frame.nPoll = 3
    /\ frame.err = [where |-> "sendCommand", text |-> "TheSkyX error"]

(* C7: if the delay service fails on the initial delay, the capture returns    *)
(* that failure at once and no completion poll is ever issued.                 *)
InitialDelayFailureIsFatal ==
    frame.failedCall = "initialDelay" =>
        /\ Returned
        /\ frame.err = frame.collaboratorErr
        /\ frame.lastCall = "initialDelay"
        /\ frame.nPoll = 0 /\ frame.nPollDelay = 0 /\ frame.nADU = 0

InitialDelayFailureWitness ==
    /\ frame.failedCall = "initialDelay" /\ frame.kind = "bias" /\ Returned
    /\ frame.err \in DelayErrors /\ frame.nStart = 1 /\ frame.nInitialDelay = 1

(* C8: if the delay service fails on a polling delay inside the loop of any    *)
(* capture kind, the capture returns that failure at once, with no further     *)
(* poll or delay.                                                              *)
PollDelayFailureIsFatal ==
    frame.failedCall = "pollDelay" =>
        /\ Returned
        /\ frame.err = frame.collaboratorErr
        /\ frame.lastCall = "pollDelay"
        /\ frame.nPoll = frame.nPollDelay
        /\ frame.nADU = 0

PollDelayFailureWitness ==
    /\ frame.failedCall = "pollDelay" /\ frame.kind = "flat" /\ Returned
    /\ frame.err \in DelayErrors /\ frame.nPollDelay = 2 /\ frame.nPoll = 2

(* C9: the timeout failure is recognisable and names its operation: it carries *)
(* the text "Timeout waiting for capture to finish" with the name of the       *)
(* capture operation that timed out, and no start, poll, delay or measurement  *)
(* failure is returned with that text.                                         *)
TimeoutIsDistinct ==
    (Returned /\ frame.err # NoError) =>
        /\ frame.failedCall = "none" =>
              /\ frame.err.text = "Timeout waiting for capture to finish"
              /\ frame.kind = "dark" => frame.err.where = "CaptureDarkFrame"
              /\ frame.kind = "bias" => frame.err.where = "CaptureBiasFrame"
              /\ frame.kind = "flat" => frame.err.where = "CaptureAndMeasureFlatFrame"
        /\ frame.failedCall # "none" =>
              /\ frame.err = frame.collaboratorErr
              /\ frame.err.text # "Timeout waiting for capture to finish"

\* the test "capture flat frame timing out without finishing"
FlatTimeoutWitness ==
    /\ TimeoutReported
    /\ frame.kind = "flat" /\ frame.seconds = 140 /\ frame.downloadTime = 50
    /\ frame.err = [where |-> "CaptureAndMeasureFlatFrame",
                    text |-> "Timeout waiting for capture to finish"]

(* C10: what a capture does and how it ends do not depend on the durations the *)
(* delay service reports: two runs with the same arguments and the same driver *)
(* replies, told different actual delays, issue the same calls and succeed or  *)
(* time out at the same poll, the accumulator advancing by the nominal 2 s.    *)
ReportedDelaysDoNotMatter ==
    /\ twin = frame
    /\ frame.pc \in {"poll", "pollDelay"} =>
          frame.secondsWaitedSoFar = 20 * frame.nPollDelay

\* a bias capture that timed out in both runs although their reports differed
TwinTimeoutWitness ==
    /\ reportsDiffered
    /\ TimeoutReported /\ frame.kind = "bias"
    /\ twin.pc = "returned" /\ twin.err = frame.err /\ twin.nPoll = frame.nPoll

(* C11: for every capture kind and every exposure and download time, however   *)
(* small, the maximum total wait the call computes is at least the floor of    *)
(* its kind: 600 s for dark and flat, 180 s for bias.                          *)
MaximumWaitAtLeastFloor ==
    (frame.pc = "poll" \/ frame.nPoll > 0) =>
        /\ frame.kind \in {"dark", "flat"} => frame.maximumWaitSeconds >= 6000
        /\ frame.kind = "bias" => frame.maximumWaitSeconds >= 1800

\* a flat frame of 0.4 s with no download time waits for the floor, not for 2 s
SmallExposureFloorWitness ==
    /\ frame.pc = "poll" /\ frame.nPoll = 0
    /\ frame.kind = "flat" /\ frame.seconds = 4 /\ frame.downloadTime = 0
    /\ frame.maximumWaitSeconds = 6000

(* C12: whenever a capture reports a timeout, the accumulated nominal wait is  *)
(* strictly greater than the maximum wait the call computed, and exceeds it by *)
(* at most one polling interval (2 s).                                         *)
TimeoutOvershootsByAtMostOneInterval ==
    TimeoutReported =>
        /\ frame.secondsWaitedSoFar > frame.maximumWaitSeconds
        /\ frame.secondsWaitedSoFar - frame.maximumWaitSeconds <= 20

\* dark frame, 125 s exposure, 2.5 s download: limit 637.5 s, timeout at 638 s
OvershootWitness ==
    /\ TimeoutReported
    /\ frame.kind = "dark" /\ frame.seconds = 1250 /\ frame.downloadTime = 25
    /\ frame.maximumWaitSeconds = 6375
    /\ frame.secondsWaitedSoFar = 6380

(* C13: in the polling loop the poll's answer is examined before the elapsed   *)
(* time: a poll that answers complete always yields success, even when the     *)
(* accumulated wait already exceeds the maximum at that poll, and a timeout is *)
(* only ever reported in response to a poll that answered not-complete.  For a *)
(* flat capture success is: the call goes on to its brightness measurement.    *)
CompletionExaminedBeforeTimeout ==
    /\ (frame.lastCall = "poll" /\ frame.lastDone) =>
          /\ Succeeding
          /\ frame.err = NoError
    /\ TimeoutReported => NotCompletePoll

\* a bias capture whose poll answers complete at 182 s, past the 180 s limit
LateCompletionWitness ==
    /\ Returned /\ frame.err = NoError
    /\ frame.lastCall = "poll" /\ frame.lastDone
    /\ frame.kind = "bias"
    /\ frame.maximumWaitSeconds = 1800
    /\ frame.secondsWaitedSoFar = 1820

(* C14: when a flat capture completes with simulation enabled, the brightness  *)
(* it returns is the Flat Simulation Model's output for the call's exposure,   *)
(* binning and filter slot and the noise drawn, never the value the channel's  *)
(* measurement reported (the channel's values here are none of the model's     *)
(* outputs), while GetADUValue is still invoked exactly once.                  *)
SimulatedBrightnessReturned ==
    (Returned /\ frame.kind = "flat" /\ frame.err = NoError
              /\ simulateFlatCapture) =>
        /\ frame.aduValue =
               simulatedFrameCapture(frame.seconds, frame.binning, frame.filterSlot,
                                     simulationNoiseFraction, frame.noiseDraw)
        /\ frame.aduValue # frame.channelADU
        /\ frame.nADU = 1
        /\ frame.lastCall = "measure"

\* 14 s, binning 1, no filter, no noise: 721.8 x 14 + 19817 = 29922.2, the
\* channel having measured 30000
SimulatedFlatWitness ==
    /\ Returned /\ frame.kind = "flat" /\ frame.err = NoError
    /\ simulateFlatCapture /\ simulationNoiseFraction = 0
    /\ frame.seconds = 140 /\ frame.binning = 1
    /\ frame.filterSlot = FilterSlotNoFilter
    /\ frame.channelADU = 30000 /\ frame.nADU = 1
    /\ frame.aduValue = 29922

(* C15: when a flat capture completes with simulation disabled, the brightness *)
(* it returns is exactly the integer GetADUValue reported, whether the poll    *)
(* answered complete the first time or after extra polling delays.             *)
ChannelBrightnessReturned ==
    (Returned /\ frame.kind = "flat" /\ frame.err = NoError
              /\ ~simulateFlatCapture) =>
        /\ frame.aduValue = frame.channelADU
        /\ frame.nADU = 1
        /\ frame.nPoll >= 1

\* the test "capture flat frame requiring two extra waits": 30000 comes back
ChannelFlatAfterTwoWaitsWitness ==
    /\ Returned /\ frame.kind = "flat" /\ frame.err = NoError
    /\ ~simulateFlatCapture
    /\ frame.seconds = 140 /\ frame.binning = 1 /\ frame.filterSlot = 1
    /\ frame.downloadTime = 50
    /\ frame.nPoll = 3 /\ frame.nPollDelay = 2
    /\ frame.channelADU = 30000 /\ frame.aduValue = 30000

(* C16: for the same arguments and the same collaborator replies, a flat       *)
(* capture issues exactly the same sequence of driver and delay-service calls  *)
(* (start, delays, polls, measurement) with simulation enabled as with it      *)
(* disabled: step for step the two runs have made the same call with the same  *)
(* argument, stand at the same place and end with the same outcome; only the   *)
(* brightness returned (and the noise drawn for it) may differ.                *)
SameCallsInBothModes ==
    [twin EXCEPT !.aduValue = frame.aduValue, !.noiseDraw = frame.noiseDraw] = frame

\* both modes have returned after three polls and one measurement, the one the
\* simulated brightness and the other the channel's
BothModesMeasuredWitness ==
    /\ Returned /\ frame.err = NoError /\ twin.pc = "returned"
    /\ frame.nPoll = 3 /\ twin.nPoll = 3
    /\ frame.nADU = 1 /\ twin.nADU = 1
    /\ simulateFlatCapture
    /\ twin.aduValue = 30000 /\ frame.aduValue = 29922

(* C17: if GetADUValue fails after completion was confirmed, the flat capture  *)
(* returns that failure and no measurement, in both simulation modes: with     *)
(* simulation enabled the failed measurement is not masked by the simulated    *)
(* value.                                                                      *)
MeasureFailureIsFatal ==
    /\ frame.failedCall = "measure" =>
          /\ Returned
          /\ frame.lastDone
          /\ frame.err = frame.collaboratorErr
          /\ frame.err \in ADUErrors
          /\ frame.aduValue = 0
          /\ frame.nADU = 1
    /\ (frame.lastCall = "measure" /\ frame.err = NoError) =>
          frame.failedCall = "none"

\* simulation enabled, the reply to GetADUValue cannot be parsed
SimulatedMeasureFailureWitness ==
    /\ simulateFlatCapture
    /\ Returned /\ frame.kind = "flat" /\ frame.failedCall = "measure"
    /\ frame.err = [where |-> "sendCommandFloatReply",
                    text |-> "error parsing numeric result"]
    /\ frame.aduValue = 0 /\ frame.nPoll = 2

\* a flat capture has been called with an exposure of exactly zero
ZeroExposureFlatCalled ==
    frame.pc # "idle" /\ frame.kind = "flat" /\ frame.seconds = 0

\* the call has ended without success, by a returned failure or by a panic
Failed ==
    \/ frame.pc = "panicked"
    \/ Returned /\ frame.err # NoError

(* C18: a flat capture called with an exposure of exactly zero fails           *)
(* immediately, before any side effect: no start command, no delay request, no *)
(* poll and no measurement is issued.                                          *)
ZeroExposureFailsBeforeAnyCall ==
    ZeroExposureFlatCalled =>
        /\ Failed
        /\ frame.nStart = 0
        /\ frame.nInitialDelay = 0 /\ frame.nPollDelay = 0
        /\ frame.nPoll = 0
        /\ frame.nADU = 0
        /\ frame.lastCall = "none"

\* CaptureAndMeasureFlatFrame(0.0, 2, 1, 5.0, false) has stopped at its test
ZeroExposureWitness ==
    /\ ZeroExposureFlatCalled /\ Failed
    /\ frame.binning = 2 /\ frame.filterSlot = 1 /\ frame.downloadTime = 50
    /\ frame.nStart = 0 /\ frame.lastCall = "none"

(* C19: a flat capture never issues a start command with an exposure that is   *)
(* not strictly positive: for every exposure <= 0, zero or negative, the call  *)
(* fails fast, issuing no command, and StartFlatFrameCapture is not invoked.   *)
NonPositiveExposureNeverStarts ==
    (frame.pc # "idle" /\ frame.kind = "flat" /\ frame.seconds <= 0) =>
        /\ frame.nStart = 0
        /\ frame.lastCall = "none"

(* C20: a zero exposure passed to a flat capture is surfaced to the caller as  *)
(* a returned failure of a kind distinct from the runtime failures (start,     *)
(* poll, delay, measurement, timeout), not as a crash of the calling program:  *)
(* the call returns normally with an error outcome.                            *)
ZeroExposureIsAReturnedFailure ==
    ZeroExposureFlatCalled =>
        /\ Returned
        /\ frame.err # NoError
        /\ frame.failedCall = "none"
        /\ frame.err.text # "Timeout waiting for capture to finish"

\* the probe's query was answered, without failing
QueryAnswered == probe.nQuery = 1 /\ probe.queryErr = NoError

\* the probe's connect attempt succeeded
ConnectSucceeded == probe.nConnect = 1 /\ probe.connectErr = NoError

ProbeReturned == probe.pc = "returned"

(* C21: HasFilterWheel, when the connected-state query answers connected:      *)
(* presence is true with no error, and neither a connect nor a disconnect      *)
(* command is issued.                                                          *)
ConnectedWheelIsPresent ==
    (QueryAnswered /\ probe.queryAnswer) =>
        /\ ProbeReturned
        /\ probe.presence /\ probe.err = NoError
        /\ probe.nConnect = 0 /\ probe.nDisconnect = 0

\* the real driver in front of a wheel that is connected
ConnectedWheelWitness ==
    /\ ProbeReturned /\ QueryAnswered /\ probe.queryAnswer
    /\ wheel.driver = "real" /\ wheel.connected
    /\ probe.presence /\ probe.lastCall = "query"

(* C22: HasFilterWheel, when the query answers not connected and the connect   *)
(* attempt succeeds: presence is true with no error, exactly one disconnect    *)
(* command is issued, after the connect, and the result is the same whether    *)
(* that disconnect succeeds or fails.                                          *)
ConnectableWheelIsPresent ==
    ConnectSucceeded =>
        /\ QueryAnswered /\ ~probe.queryAnswer
        /\ \/ probe.pc = "disconnect" /\ probe.nDisconnect = 0
           \/ /\ ProbeReturned
              /\ probe.presence /\ probe.err = NoError
              /\ probe.nDisconnect = 1 /\ probe.lastCall = "disconnect"

\* the connect succeeded and the disconnect after it failed
FailedDisconnectWitness ==
    /\ ProbeReturned /\ ConnectSucceeded
    /\ probe.nDisconnect = 1 /\ probe.disconnectErr # NoError
    /\ probe.presence /\ probe.err = NoError

(* C23: HasFilterWheel, when the query answers not connected and the connect   *)
(* attempt fails with any error: presence is false, no error reaches the       *)
(* caller, and no disconnect command is issued.                                *)
FailedConnectMeansAbsent ==
    (probe.nConnect = 1 /\ probe.connectErr # NoError) =>
        /\ ProbeReturned
        /\ ~probe.presence /\ probe.err = NoError
        /\ probe.nDisconnect = 0

\* no wheel behind the real driver: the connect answers response code 1
AbsentWheelWitness ==
    /\ ProbeReturned /\ wheel.driver = "real" /\ ~wheel.present
    /\ probe.connectErr = [where |-> "FilterWheelConnect", text |-> "response code 1"]
    /\ ~probe.presence /\ probe.err = NoError

(* C24: HasFilterWheel, when the initial connected-state query itself fails:   *)
(* that failure is returned to the caller as an error, and no connect or       *)
(* disconnect command is attempted.                                            *)
QueryFailureIsReturned ==
    (probe.nQuery = 1 /\ probe.queryErr # NoError) =>
        /\ ProbeReturned
        /\ probe.err = probe.queryErr
        /\ ~probe.presence
        /\ probe.nConnect = 0 /\ probe.nDisconnect = 0

\* the query's reply could not be read as a number
QueryFailureWitness ==
    /\ ProbeReturned /\ probe.lastCall = "query"
    /\ probe.err = [where |-> "sendCommandIntReply",
                    text |-> "error parsing numeric result"]

(* C25: the presence probe restores the prior state: when HasFilterWheel, on   *)
(* the real driver, finds the wheel not connected and its connect attempt      *)
(* succeeds, the wheel is again not connected when HasFilterWheel returns.     *)
ProbeRestoresWheelState ==
    (wheel.driver = "real" /\ ProbeReturned /\ ConnectSucceeded) =>
        /\ ~wheel.connected
        /\ wheel.connected = probe.connectedBefore

(* C26: the command channel serializes the transmissions: when two threads     *)
(* call operations of the same TheSkyDriverInstance concurrently, their        *)
(* sendCommand transactions (open socket, write command, read reply) exclude   *)
(* each other: at most one thread is inside the locked section at any time.    *)
SendCommandIsMutuallyExclusive ==
    \A t, u \in Threads :
        (InLockedSection(t) /\ InLockedSection(u)) => t = u

(* C27: every failure a capture operation returns, other than the timeout, is  *)
(* exactly the error of the collaborator call that failed (start, delay, poll  *)
(* or measurement), unchanged, and that call is the last one made: nothing is  *)
(* retried.  There is no partial success: a flat capture that returns a        *)
(* failure returns measurement 0 with it, and a capture returns success only   *)
(* after a poll answered complete.                                             *)
FailuresBubbleUnchanged ==
    /\ frame.failedCall # "none" =>
          /\ Returned
          /\ frame.err = frame.collaboratorErr
          /\ frame.err # NoError
          /\ frame.lastCall = frame.failedCall
    /\ (Returned /\ frame.err # NoError) =>
          /\ frame.aduValue = 0
          /\ frame.failedCall = "none" => frame.err = TimeoutError(frame.kind)
    /\ (Returned /\ frame.err = NoError) =>
          /\ frame.lastDone
          /\ frame.failedCall = "none"
          /\ frame.kind = "flat" => frame.nADU = 1

\* a flat capture whose second poll fails with the channel's error
FlatPollFailureBubblesWitness ==
    /\ Returned /\ frame.kind = "flat"
    /\ frame.failedCall = "poll" /\ frame.nPoll = 2 /\ frame.nPollDelay = 1
    /\ frame.err = [where |-> "sendCommand", text |-> "TheSkyX error"]
    /\ frame.aduValue = 0 /\ frame.nADU = 0

\* the delays and polls a capture has requested so far, with their arguments
DelaysAndPolls(f) ==
    <<f.nStart, f.nInitialDelay, f.firstDelayArg, f.nPollDelay, f.pollDelayArg,
      f.nPoll, f.secondsWaitedSoFar, f.lastDone>>

\* how a capture stands: still running, succeeded, timed out, or failed
Outcome(f) ==
    IF f.pc = "panicked" THEN "panicked"
    ELSE IF f.pc # "returned" THEN "running"
    ELSE IF f.err = NoError THEN "success"
    ELSE IF f.failedCall = "none" THEN "timeout"
    ELSE "failure"

\* the flat capture (twin) goes as the dark capture (frame) of the same
\* exposure does, and adds only its measurement after the complete poll
FlatGoesAsDark ==
    /\ DelaysAndPolls(twin) = DelaysAndPolls(frame)
    /\ twin.maximumWaitSeconds = frame.maximumWaitSeconds
    /\ twin.nADU = 0 /\ twin.pc # "measure" =>
          /\ twin.pc = frame.pc
          /\ Outcome(twin) = Outcome(frame)
          /\ twin.failedCall = frame.failedCall
    /\ twin.nADU = 1 \/ twin.pc = "measure" =>
          /\ Outcome(frame) = "success"
          /\ twin.lastDone /\ twin.nPoll = frame.nPoll

\* the bias capture (twin) goes as the dark capture (frame) of 0.1 s does,
\* with the floor 180 s in the place of 600 s
BiasGoesAsDarkOfShortExposure ==
    /\ twin.firstDelayArg = frame.firstDelayArg
    /\ twin.pc \in {"poll", "pollDelay"} \/ twin.nPoll > 0 =>
          twin.maximumWaitSeconds =
              IF 5 * (frame.seconds + frame.downloadTime) > 1800
              THEN 5 * (frame.seconds + frame.downloadTime) ELSE 1800
    /\ Outcome(twin) # "timeout" =>
          /\ twin.pc = frame.pc
          /\ DelaysAndPolls(twin) = DelaysAndPolls(frame)
          /\ Outcome(twin) = Outcome(frame)
          /\ twin.failedCall = frame.failedCall
    /\ Outcome(twin) = "timeout" =>
          /\ ~twin.lastDone /\ twin.lastCall = "poll"
          /\ twin.secondsWaitedSoFar > twin.maximumWaitSeconds
          /\ twin.secondsWaitedSoFar - 20 <= twin.maximumWaitSeconds
          /\ frame.nPoll >= twin.nPoll

(* C28, as stated: the three capture operations are one state machine: for     *)
(* equal exposure and download time and the same poll and delay replies, dark  *)
(* and flat capture request the same delays and polls and reach success or     *)
(* timeout at the same poll (flat adding only its measurement), and bias       *)
(* capture behaves as dark capture would with exposure 0.1 s and floor 180 s.  *)
CapturesAreOneMachine ==
    /\ twin.kind = "flat" => FlatGoesAsDark
    /\ twin.kind = "bias" => BiasGoesAsDarkOfShortExposure

(* C28, amended: the same, for every exposure other than zero; with exposure   *)
(* zero the flat capture stops before any command while the dark capture       *)
(* starts, delays and polls as with any other exposure.                        *)
CapturesAreOneMachineButForZeroFlat ==
    /\ (twin.kind = "flat" /\ twin.seconds # 0) => FlatGoesAsDark
    /\ (twin.kind = "flat" /\ twin.seconds = 0) =>
          /\ Outcome(twin) = "panicked"
          /\ twin.lastCall = "none"
    /\ twin.kind = "bias" => BiasGoesAsDarkOfShortExposure

\* dark and flat of 14 s with 5 s download both time out at their 302nd poll
DarkAndFlatTimeoutWitness ==
    /\ twin.kind = "flat" /\ twin.seconds = 140 /\ twin.downloadTime = 50
    /\ Outcome(twin) = "timeout" /\ Outcome(frame) = "timeout"
    /\ twin.nPoll = 302 /\ frame.nPoll = 302

\* the five listed response curves: slope in thousandths, intercept in 1e-4
ListedCurves ==
    {[binning |-> 1, filterSlot |-> 4, slope |-> 721800, intercept |-> 198170000],
     [binning |-> 2, filterSlot |-> 1, slope |-> 7336700, intercept |-> -1004800],
     [binning |-> 2, filterSlot |-> 2, slope |-> 11678000, intercept |-> -2930900],
     [binning |-> 2, filterSlot |-> 3, slope |-> 6820400, intercept |-> 18583000],
     [binning |-> 1, filterSlot |-> 5, slope |-> 67247, intercept |-> 26327000]}

\* the curve of (binning, filterSlot): the listed one, or else the first entry's
ModelCurve(binning, filterSlot) ==
    LET listed == {c \in ListedCurves :
                      c.binning = binning /\ c.filterSlot = filterSlot}
    IN  IF listed = {} THEN [slope |-> 721800, intercept |-> 198170000]
        ELSE CHOOSE c \in listed : TRUE

\* round(v + noiseFraction x r x v) for v given in 1e-4, the noise fraction in
\* tenths and r in quarters: v x (40 + noiseFraction x draw) / 400000 rounded to
\* the nearest whole number, a half going away from zero
ModelRounded(v, noiseFraction, draw) ==
    LET m == 40 + noiseFraction * draw
        whole == (v \div 400000) * m + (((v % 400000) * m) \div 400000)
        twice == 2 * (((v % 400000) * m) % 400000)
    IN  IF twice > 400000 \/ (twice = 400000 /\ v > 0) THEN whole + 1 ELSE whole

\* the Flat Simulation Model's output
ModelOutput(exposure, binning, filterSlot, noiseFraction, draw) ==
    LET c == ModelCurve(binning, filterSlot)
        r == ModelRounded(c.slope * exposure + c.intercept, noiseFraction, draw)
    IN  IF r < 65535 THEN r ELSE 65535

(* C29: the Flat Simulation Model returns min(round(v + noiseFraction x r x    *)
(* v), 65535) with v = slope x exposure + intercept, r the noise draw in       *)
(* [-0.5, 0.5) and (slope, intercept) chosen by (binning, filterSlot) among    *)
(* the five listed combinations, any other combination using the first         *)
(* entry's curve (721.8, 19817.0); so the result never exceeds 65535, and for  *)
(* exposure 14.0, binning 2, filter slot 1 and noise fraction 0 it is          *)
(* round(7336.7 x 14.0 - 100.48) = 102613 clamped to 65535.                    *)
SimulationFollowsTheModel ==
    sim.pc = "done" =>
        /\ sim.result = ModelOutput(sim.exposure, sim.binning, sim.filterSlot,
                                    sim.noiseFraction, sim.draw)
        /\ sim.result <= 65535
        /\ (sim.exposure = 140 /\ sim.binning = 2 /\ sim.filterSlot = 1
                /\ sim.noiseFraction = 0) => sim.result = 65535

\* the specification's example: 14 s, binning 2, filter slot 1, no noise
SimulationExampleWitness ==
    /\ sim.pc = "done"
    /\ sim.exposure = 140 /\ sim.binning = 2 /\ sim.filterSlot = 1
    /\ sim.noiseFraction = 0
    /\ sim.result = 65535

(* C30: MeasureDownloadTime(binning) measures the download time of an image    *)
(* taken at the binning the caller passed: the exposure it commands uses that  *)
(* binning (BinX = BinY = binning), for every binning.                         *)
DownloadMeasuredAtTheBinningAsked ==
    (download.pc = "sent" \/ (download.pc = "returned" /\ download.binX # 0)) =>
        /\ download.binX = download.binning
        /\ download.binY = download.binning

\* a name of white space only
BlankName(name) == \A i \in 1..Len(name) : IsSpace(name[i])

\* the number of names before the first blank one
LeadingNames(names) ==
    IF \E i \in 1..Len(names) : BlankName(names[i])
    THEN (CHOOSE i \in 1..Len(names) :
             BlankName(names[i]) /\ \A j \in 1..(i - 1) : ~BlankName(names[j])) - 1
    ELSE Len(names)

\* a name that is not blank, from its first to its last character that is not
\* white space, in lower case
CleanName(name) ==
    LET inked == {i \in 1..Len(name) : ~IsSpace(name[i])}
        first == CHOOSE i \in inked : \A j \in inked : i <= j
        last  == CHOOSE i \in inked : \A j \in inked : j <= i
    IN  [i \in 1..(last - first + 1) |->
            IF name[first + i - 1] = "A" THEN "a" ELSE name[first + i - 1]]

(* C31: for every list of names the driver returns, NumberOfFilters is the     *)
(* number of names before the first blank one and FilterNames returns exactly  *)
(* those leading names, trimmed and lower-cased, in order; so the two agree    *)
(* in number and no returned name is blank.                                    *)
FilterNamesAreTheLeadingNames ==
    /\ (filters.counted /\ filters.countErr = NoError) =>
          filters.count = LeadingNames(filters.driverNames)
    /\ (filters.listed /\ filters.namesErr = NoError) =>
          /\ Len(filters.names) = LeadingNames(filters.driverNames)
          /\ \A i \in 1..Len(filters.names) :
                /\ filters.names[i] = CleanName(filters.driverNames[i])
                /\ ~BlankName(filters.names[i])
    /\ (/\ filters.counted /\ filters.countErr = NoError
        /\ filters.listed /\ filters.namesErr = NoError) =>
          Len(filters.names) = filters.count

\* a leading name to trim and lower-case, then a blank one, both calls made
FilterNamesWitness ==
    /\ filters.driverNames = <<<<" ", "A">>, <<" ">>>>
    /\ filters.counted /\ filters.countErr = NoError /\ filters.count = 1
    /\ filters.listed /\ filters.namesErr = NoError /\ filters.names = <<<<"a">>>>

\* a collaborator has been called in the capture call in progress
AnyCallAfterStart(f) == f.nInitialDelay + f.nPoll + f.nPollDelay + f.nADU > 0

(* C32: the collaborator calls of a capture call are the start command,        *)
(* exactly once and first, then the initial delay, then polls alternating with *)
(* polling-interval delays; no poll is issued before the initial delay has     *)
(* returned, and a flat frame's brightness is measured at most once and only   *)
(* after a poll has reported complete.                                         *)
CallTraceHasTheCaptureShape ==
    /\ frame.nStart <= 1
    /\ AnyCallAfterStart(frame) => (frame.nStart = 1 /\ frame.failedCall # "start")
    /\ frame.nInitialDelay <= 1
    /\ frame.nPoll + frame.nPollDelay + frame.nADU > 0 =>
          (frame.nInitialDelay = 1 /\ frame.failedCall # "initialDelay")
    /\ frame.nPollDelay <= frame.nPoll
    /\ frame.nPoll <= frame.nPollDelay + 1
    /\ frame.lastCall = "poll" => frame.nPoll = frame.nPollDelay + 1
    /\ frame.lastCall = "pollDelay" =>
          (frame.nPoll = frame.nPollDelay /\ frame.pollDelayArg = PollDelayArg)
    /\ frame.pc = "poll" => frame.lastCall \in {"initialDelay", "pollDelay"}
    /\ frame.pc = "pollDelay" => (frame.lastCall = "poll" /\ ~frame.lastDone)
    /\ frame.nADU <= 1
    /\ frame.nADU = 1 =>
          /\ frame.kind = "flat"
          /\ frame.lastCall = "measure"
          /\ frame.lastDone
          /\ frame.nPoll = frame.nPollDelay + 1

\* a flat frame measured after a not-complete poll, a wait and a complete poll
FlatTraceWitness ==
    /\ frame.kind = "flat" /\ Returned /\ frame.err = NoError
    /\ frame.nStart = 1 /\ frame.nInitialDelay = 1
    /\ frame.nPoll = 2 /\ frame.nPollDelay = 1 /\ frame.nADU = 1

\* the completion polls a wait limit allows
MaximumPolls(maximumWaitSeconds) == maximumWaitSeconds \div pollingInterval + 2

(* C33: whatever the polls answer, the polling loop makes at most              *)
(* floor(maximumWait / pollingInterval) + 2 completion polls, and with the     *)
(* last of them it has returned success, a collaborator failure or timeout     *)
(* (or, for a flat frame, gone on to the measurement).                         *)
PollsAreBounded ==
    /\ frame.nPoll <= MaximumPolls(frame.maximumWaitSeconds)
    /\ frame.nPoll = MaximumPolls(frame.maximumWaitSeconds) =>
          frame.pc \in {"measure", "returned"}

\* a bias frame times out with the last poll the limit of 180 s allows
LastPollTimeoutWitness ==
    /\ frame.kind = "bias" /\ TimeoutReported
    /\ frame.maximumWaitSeconds = minimumTimeoutForBias
    /\ frame.nPoll = MaximumPolls(minimumTimeoutForBias)

(* C34: WaitForCameraInactive surfaces a failure of the Delay Provider as a    *)
(* failure of the call: once a polling delay request has failed, the call has  *)
(* returned a failure and polls no more.                                       *)
DelayFailureEndsTheWait ==
    waiting.delayFailed => (waiting.pc = "returned" /\ waiting.err # NoError)

(* C35: WaitForCameraInactive on an open service first connects the camera,    *)
(* then polls: it succeeds as soon as a poll reports done (with no delay when  *)
(* the first poll is done), returns a failed camera connect or a failed poll   *)
(* at once as its error, and reports its timeout only after a not-done poll    *)
(* followed by a delay request.                                                *)
WaitPollsUntilDone ==
    /\ (waiting.openBefore /\ waiting.pc # "idle") => waiting.nConnect = 1
    /\ waiting.nPoll > 0 => waiting.nConnect = 1
    /\ waiting.lastDone =>
          /\ waiting.pc = "returned" /\ waiting.err = NoError
          /\ waiting.nDelay = waiting.nPoll - 1
    /\ (waiting.pc = "returned" /\ waiting.err = NoError) =>
          (waiting.lastDone /\ waiting.lastCall = "poll")
    /\ (waiting.lastCall = "connect" /\ waiting.collaboratorErr # NoError) =>
          /\ waiting.pc = "returned" /\ waiting.err = waiting.collaboratorErr
          /\ waiting.nPoll = 0 /\ waiting.nDelay = 0
    /\ (waiting.lastCall = "poll" /\ waiting.collaboratorErr # NoError) =>
          /\ waiting.pc = "returned" /\ waiting.err = waiting.collaboratorErr
          /\ waiting.nDelay = waiting.nPoll - 1
    /\ waiting.err = WaitTimeoutError =>
          /\ waiting.nNotDone >= 1 /\ waiting.nDelay >= 1
          /\ waiting.lastCall = "delay" /\ waiting.nDelay = waiting.nPoll

\* the camera is done at the second poll, after one delay
WaitDoneAtSecondPollWitness ==
    /\ waiting.pc = "returned" /\ waiting.err = NoError /\ waiting.openBefore
    /\ waiting.nConnect = 1 /\ waiting.nPoll = 2 /\ waiting.nDelay = 1

(* C36: Connect returns success only if the driver's ConnectCamera has         *)
(* succeeded since the service last became open, also when it follows a        *)
(* Connect that failed at the camera-connect step.                             *)
ConnectSuccessMeansCameraConnected ==
    (served.layer = "service" /\ served.name = "Connect" /\ served.err = NoError) =>
        served.after.cameraSinceOpen

(* C37: while the service is not open, ConnectCamera, StartCooling,            *)
(* StopCooling, GetCameraTemperature, MeasureDownloadTime and                  *)
(* WaitForCameraInactive each return a "Connection not open" error without     *)
(* invoking the driver or the delay provider.                                  *)
NotOpenIsRefusedWithoutCalls ==
    /\ (/\ served.layer = "service"
        /\ served.name \in ServiceCameraOperations \cup {"ConnectCamera"}
        /\ ~served.before.isOpen) =>
          /\ served.err = Err(served.name, "Connection not open")
          /\ served.nDriver = 0 /\ served.nSent = 0
          /\ served.after = served.before
    /\ (download.pc # "idle" /\ ~download.openBefore) =>
          /\ download.pc = "returned"
          /\ download.err = Err("MeasureDownloadTime", "Connection not open")
          /\ download.nDriver = 0 /\ download.binX = 0 /\ download.binY = 0
    /\ (waiting.pc # "idle" /\ ~waiting.openBefore) =>
          /\ waiting.pc = "returned"
          /\ waiting.err = Err("WaitForCameraInactive", "Connection not open")
          /\ waiting.nConnect = 0 /\ waiting.nPoll = 0 /\ waiting.nDelay = 0

\* the service was closed with the camera connected, and all six were then refused
RefusedAfterCloseWitness ==
    /\ served.layer = "service" /\ served.name = "StopCooling"
    /\ ~served.before.isOpen /\ served.before.cameraConnected
    /\ served.err = Err("StopCooling", "Connection not open")
    /\ download.pc = "returned" /\ ~download.openBefore
    /\ waiting.pc = "returned" /\ ~waiting.openBefore

(* C38: the open flag changes only on the driver's success: Connect on an open *)
(* service and Close on a service not open return nil without invoking the     *)
(* driver; the flag becomes true exactly when driver.Connect succeeds and      *)
(* false exactly when driver.Close succeeds; no other operation changes it.    *)
OpenFlagFollowsTheDriver ==
    /\ served.layer = "none" => ~link.isOpen
    /\ served.layer = "service" =>
          /\ link.isOpen = served.after.isOpen
          /\ (served.name = "Connect" /\ served.before.isOpen) =>
                /\ served.err = NoError /\ served.nDriver = 0
                /\ served.after = served.before
          /\ (served.name = "Connect" /\ ~served.before.isOpen) =>
                /\ served.nDriver >= 1
                /\ served.after.isOpen <=> served.firstErr = NoError
          /\ (served.name = "Close" /\ ~served.before.isOpen) =>
                /\ served.err = NoError /\ served.nDriver = 0
                /\ served.after = served.before
          /\ (served.name = "Close" /\ served.before.isOpen) =>
                /\ served.nDriver = 1
                /\ ~served.after.isOpen <=> served.firstErr = NoError
          /\ served.name \notin {"Connect", "Close"} =>
                served.after.isOpen = served.before.isOpen

\* a Close that the driver failed leaves the service open
FailedCloseWitness ==
    /\ served.layer = "service" /\ served.name = "Close"
    /\ served.before.isOpen /\ served.firstErr # NoError
    /\ served.err = served.firstErr /\ link.isOpen

(* C39: on the driver, each camera operation returns "Camera not connected"    *)
(* and sends nothing if and only if no ConnectCamera has yet succeeded on that *)
(* driver; a failed ConnectCamera does not set the flag and Close does not     *)
(* clear it.                                                                   *)
CameraGuardFollowsConnectCamera ==
    /\ link.cameraConnected = link.cameraEver
    /\ served.layer = "driver" =>
          /\ served.name \in CameraOperations =>
                /\ (served.err = Err(served.name, "Camera not connected"))
                       <=> ~served.before.cameraEver
                /\ served.nSent = 0 <=> ~served.before.cameraEver
          /\ (served.name = "ConnectCamera" /\ served.err # NoError) =>
                served.after.cameraConnected = served.before.cameraConnected
          /\ served.name = "Close" =>
                served.after.cameraConnected = served.before.cameraConnected

\* an exposure is started on a driver that was closed after its camera was connected
CameraOperationAfterCloseWitness ==
    /\ served.layer = "driver" /\ served.name = "StartDarkFrameCapture"
    /\ ~served.before.driverOpen /\ served.before.cameraEver
    /\ served.nSent = 1 /\ served.err = NoError

\* the line begins with "no error." in whatever case
BeginsWithNoError(line) ==
    /\ Len(line) >= Len(NoErrorPrefix)
    /\ \A i \in 1..Len(NoErrorPrefix) :
          line[i] \in {NoErrorPrefix[i], UpperOf(NoErrorPrefix[i])}

(* C40: for a reply <data>|<error line>, sendCommand returns the data with no  *)
(* error if and only if the error line is empty or begins, in whatever case,   *)
(* with "no error."; for every other error line it returns an error that       *)
(* carries the error line (in lower case), and each of the driver's ways of    *)
(* sending a command then reports failure.                                     *)
ReplyErrorLineDecides ==
    reply.received =>
        /\ ~reply.panicked
        /\ reply.text = reply.data
        /\ ~reply.failed <=>
              (reply.errorLine = <<>> \/ BeginsWithNoError(reply.errorLine))
        /\ reply.failed =>
              /\ Len(reply.carried) = Len(reply.errorLine)
              /\ \A i \in 1..Len(reply.carried) :
                    reply.carried[i] = LowerOf(reply.errorLine[i])
              /\ reply.failedWrappers = Wrappers

\* "No Error." with text after it is success; the data comes back
MixedCaseNoErrorWitness ==
    /\ reply.received /\ ~reply.failed
    /\ reply.errorLine = <<"N", "o", " ", "E", "r", "r", "o", "r", ".", " ", "0">>
    /\ reply.text = <<"1">> /\ reply.failedWrappers = {}

====
